---- MODULE Spec2Model ----
(***************************************************************************)
(* Gamma Archiver: the sync orchestrator (archiver/index.ts, stored here   *)
(* as the second half of src/src/archiver/cache.ts), the cache it keeps,   *)
(* and the database request handler (db/request-handler.ts and             *)
(* db/worker.ts, stored as src/unnamed/part_002).                          *)
(*                                                                         *)
(* One state is the state of the single-threaded main loop between two     *)
(* event handlers, plus the queue of transactions posted to the database   *)
(* worker, the database tables, and the part of the platform the archiver  *)
(* reads (messages, threads).  One action is one handler run to its next   *)
(* suspension point.                                                       *)
(***************************************************************************)
EXTENDS Integers, Sequences, FiniteSets, TLC

\* ------------------------------------------------------------------ bounds
\* Operations (syncMessages / syncAllArchivedThreads calls) per process run.
MaxOps == 4
\* Messages of channel c1 that exist on the platform before the first run.
InitMsgs == 3
\* Messages created on the platform while the model runs.
MaxNewMsgs == 1
\* Page size of the message endpoint (the code asks for limit=100).
PageLimit == 2
\* Gateway dispatches that change permissions or channels, per process run.
MaxEvents == 2
\* Process restarts.
MaxRestarts == 1

\* ------------------------------------------------------------- the universe
Accounts == {"a1", "a2"}
ChanIds == {"c1", "c2"}
ThreadIds == {"t1"}
TargetIds == ChanIds \cup ThreadIds
Roles == {"everyone", "r1"}
Perms == {"VIEW", "READ", "MANAGE", "ADMIN"}
AllPerms == Perms
NoOp == 0

\* JavaScript Sets and Map key orders are insertion ordered: they are
\* modelled as sequences without repetition.
SetAdd(s, x) == IF \E k \in DOMAIN s : s[k] = x THEN s ELSE Append(s, x)
SetDel(s, x) == SelectSeq(s, LAMBDA y : y # x)
SetHas(s, x) == \E k \in DOMAIN s : s[k] = x
Range(s) == {s[k] : k \in DOMAIN s}

SetMax(S) == CHOOSE x \in S : \A y \in S : y <= x
SetMin(S) == CHOOSE x \in S : \A y \in S : x <= y

VARIABLES
  \* --- the platform
  platMsgs,       \* [TargetIds -> SUBSET Nat]: message ids that exist
  reacted,        \* message ids that carry reactions
  threadState,    \* [ThreadIds -> {"active", "archived", "private"}], the last
                  \* one for an archived private thread
  nextMsg,        \* next message id the platform hands out
  \* --- the database (worker thread and file)
  dbQueue,        \* transactions posted to the worker, not yet handled
  latest,         \* [Kinds -> set of rows]: the latest_<kind>_snapshots tables
  previous,       \* [Kinds -> set of rows]: the previous_<kind>_snapshots tables
  dbClosed,       \* the CLOSE request was handled
  reply,          \* the worker's reply to the last ADD_<KIND>_SNAPSHOT request
  \* --- the archiver process
  phase,          \* "run" | "stopped" (stop() ran) | "crashed" | "killed"
  globalAborted,  \* globalAbortController.signal.aborted
  allReady,
  accounts,       \* the `accounts` set
  acct,           \* per account: the Account object and connectAccount's locals
  reg,            \* per account: the five registries
  guildCached,    \* guilds.has(g)
  rolePerms,      \* cachedGuild.rolePermissions
  accountData,    \* cachedGuild.accountData
  chans,          \* cachedGuild.textChannels: [ChanIds -> channel record]
  ops,            \* every syncMessages / syncAllArchivedThreads call made
  trace,          \* outward effects of stop(), in order
  signalled,      \* the SIGINT/SIGTERM listener (process.once) has run
  opts,           \* the command line options --no-sync and --no-reactions
  \* --- one GatewayConnection with its transports and the server end
  gw,
  \* --- one apiReq call
  api,
  \* --- cachedGuild.memberUserIDs and the member chunks under way
  members,
  \* --- the member roles of each account as the latest payload reports them
  memberRoles,
  \* --- bookkeeping of the bounds
  events, restarts

vars == << platMsgs, reacted, threadState, nextMsg, dbQueue, latest,
           previous, dbClosed, reply, phase, globalAborted, allReady, accounts,
           acct, reg, guildCached, rolePerms, accountData, chans, ops, trace,
           signalled, opts, gw, api, members, memberRoles, events, restarts >>

platformVars == << platMsgs, reacted, threadState, nextMsg >>
dbVars == << dbQueue, latest, previous, dbClosed, reply >>
cacheVars == << guildCached, rolePerms, accountData, chans >>
cacheVars2 == << guildCached, rolePerms, accountData >>
archiverVars == << platformVars, dbVars, cacheVars, phase, globalAborted,
                   allReady, accounts, acct, reg, ops, trace, signalled, opts,
                   members, memberRoles, events, restarts >>

\* --------------------------------------------------------- permission engine
\* computeGuildPermissions: OR of the role bitfields (the @everyone role
\* included); the owner and ADMINISTRATOR get everything.
computeGuildPermissions(isOwner, rp, roles) ==
  LET base == UNION {rp[r] : r \in (roles \cup {"everyone"}) \cap DOMAIN rp}
  IN IF isOwner \/ "ADMIN" \in base THEN AllPerms ELSE base

\* computeChannelPermissions: guild permissions, then the @everyone
\* overwrite, then the role overwrites (deny, then allow), then the member
\* overwrite.  ow is the channel's permissionOverwrites map.
ApplyOw(p, o) == (p \ o.deny) \cup o.allow
computeChannelPermissions(a, isOwner, rp, ow, roles) ==
  LET g == computeGuildPermissions(isOwner, rp, roles)
      none == [allow |-> {}, deny |-> {}]
      get(k) == IF k \in DOMAIN ow THEN ow[k] ELSE none
      p1 == ApplyOw(g, get("everyone"))
      rs == roles \cap DOMAIN ow
      p2 == (p1 \ UNION {ow[r].deny : r \in rs}) \cup UNION {ow[r].allow : r \in rs}
      p3 == ApplyOw(p2, get(a))
  IN IF "ADMIN" \in g THEN AllPerms ELSE p3

\* hasChannelPermissions(permissions, required): VIEW_CHANNEL and required.
hasChannelPermissions(p, required) == "VIEW" \in p /\ required \subseteq p

\* ------------------------------------------------------ the database tables
\* A row or an object to be stored: key (the id, or user and guild id for a
\* member), ch (the parent id column), ts (_timestamp) and two monitored
\* columns f1 and f2.  For a member f1 is `roles` and f2 is `joined_at`; for
\* a message f1 is `content` and f2 is `embeds`.  del is the column _deleted
\* of the latest table (0 for NULL); the previous table has no such column.
Kinds == {"user", "guild", "role", "member", "channel", "message", "reaction"}
Row(key, ch, ts, f1, f2) ==
  [key |-> key, ch |-> ch, ts |-> ts, f1 |-> f1, f2 |-> f2, del |-> 0]

\* objectStatements.<kind>.addLatestSnapshot: the row the INSERT creates.
\* For a member the column list names joined_at before roles and the VALUES
\* list names :roles before :joined_at.
addLatestSnapshot(kind, obj) ==
  IF kind = "member"
  THEN Row(obj.key, obj.ch, obj.ts, obj.f2, obj.f1)
  ELSE Row(obj.key, obj.ch, obj.ts, obj.f1, obj.f2)

\* objectStatements.<kind>.copyLatestSnapshot: the row appended to the
\* previous table.  For a member the SELECT list holds the parameter :roles
\* in place of the column roles.
copyLatestSnapshot(kind, row, obj) ==
  IF kind = "member" THEN [row EXCEPT !.f1 = obj.f1, !.del = 0]
  ELSE [row EXCEPT !.del = 0]

\* objectStatements.<kind>.isLatestSnapshotEqual
isLatestSnapshotEqual(row, obj) == row.f1 = obj.f1 /\ row.f2 = obj.f2

\* objectStatements.<kind>.replaceLatestSnapshot
replaceLatestSnapshot(row, obj) ==
  [row EXCEPT !.ts = obj.ts, !.f1 = obj.f1, !.f2 = obj.f2]

HasRow(tbl, key) == \E r \in tbl : r.key = key
RowOf(tbl, key) == CHOOSE r \in tbl : r.key = key

addSnapshot_NoTimestampCheck(kind, lat, prev, obj) ==
  IF ~HasRow(lat, obj.key)
  THEN [lat |-> lat \cup {addLatestSnapshot(kind, obj)}, prev |-> prev,
        res |-> "FIRST"]
  ELSE LET row == RowOf(lat, obj.key) IN
       IF isLatestSnapshotEqual(row, obj)
       THEN [lat |-> lat, prev |-> prev, res |-> "SAME"]
       ELSE [lat |-> (lat \ {row}) \cup {replaceLatestSnapshot(row, obj)},
             prev |-> prev \cup {copyLatestSnapshot(kind, row, obj)},
             res |-> "ANOTHER"]

addSnapshot_CopyBeforeCheck(kind, lat, prev, obj) ==
  IF ~HasRow(lat, obj.key)
  THEN [lat |-> lat \cup {addLatestSnapshot(kind, obj)}, prev |-> prev,
        res |-> "FIRST"]
  ELSE LET row == RowOf(lat, obj.key) IN
       IF isLatestSnapshotEqual(row, obj)
       THEN [lat |-> lat, prev |-> prev, res |-> "SAME"]
       ELSE IF obj.ts <= row.ts
       THEN [lat |-> lat, prev |-> prev \cup {copyLatestSnapshot(kind, row, obj)},
             res |-> "ERROR"]
       ELSE [lat |-> (lat \ {row}) \cup {replaceLatestSnapshot(row, obj)},
             prev |-> prev \cup {copyLatestSnapshot(kind, row, obj)},
             res |-> "ANOTHER"]

\* addSnapshot with partial = false, checkIfChanged = true.  The result is
\* the new latest table, the new previous table and the AddSnapshotResult
\* ("ERROR" when the RangeError is thrown, which leaves the tables alone).
addSnapshot(kind, lat, prev, obj) ==
  IF ~HasRow(lat, obj.key)
  THEN [lat |-> lat \cup {addLatestSnapshot(kind, obj)}, prev |-> prev,
        res |-> "FIRST"]
  ELSE LET row == RowOf(lat, obj.key) IN
       IF isLatestSnapshotEqual(row, obj)
       THEN [lat |-> lat, prev |-> prev, res |-> "SAME"]
       ELSE IF obj.ts <= row.ts
       THEN [lat |-> lat, prev |-> prev, res |-> "ERROR"]
       ELSE [lat |-> (lat \ {row}) \cup {replaceLatestSnapshot(row, obj)},
             prev |-> prev \cup {copyLatestSnapshot(kind, row, obj)},
             res |-> "ANOTHER"]

\* encodeTiming(timing)
encodeTiming(timestamp, realtime) == 2 * timestamp + (IF realtime THEN 1 ELSE 0)

\* statements.getLastMessageID: max(id) over the channel's rows, -1 for NULL.
getLastMessageID(lat, ch) ==
  LET S == {r.key : r \in {x \in lat : x.ch = ch}}
  IN IF S = {} THEN -1 ELSE SetMax(S)

\* ----------------------------------------------- operations and registries
\* The five per-account registries: ongoingMessageSyncs ("msg"),
\* ongoingPrivateThreadMessageSyncs ("pmsg"), ongoingPublicThreadListSyncs
\* ("pub"), ongoingPrivateThreadListSyncs ("priv") and
\* ongoingJoinedPrivateThreadListSyncs ("joined").  reg[a][k][c] is, for the
\* two message registries, the inner Map stored under parent channel c
\* (named by the operation that created it, NoOp when the key is absent), and
\* for the three list registries the operation stored under channel c.
RegKinds == {"msg", "pmsg", "pub", "priv", "joined"}
EmptyInner == [t \in TargetIds |-> NoOp]
EmptyReg == [k \in RegKinds |-> [c \in ChanIds |-> NoOp]]

\* The channel argument of syncMessages: a CachedChannel (parent is itself)
\* or a ThreadInfo.  last is syncInfo?.lastMessageID, -1 for null/undefined.
ChanTarget(c, ch) ==
  [id |-> c, parent |-> c, isThread |-> FALSE, priv |-> FALSE,
   last |-> IF ch.syncInfo.present THEN ch.syncInfo.last ELSE -1]
\* extractThreadInfo(thread, parent): every thread of the model is a public
\* thread of channel c1.
extractThreadInfo(t, msgs) ==
  [id |-> t, parent |-> "c1", isThread |-> TRUE,
   priv |-> threadState[t] = "private",
   last |-> IF msgs = {} THEN -1 ELSE SetMax(msgs)]

\* The state a handler works on.  crash: an exception left the handler or a
\* promise nobody awaits was rejected ("unhandledRejection" rethrows it);
\* over: the handler needed more operations than MaxOps.
Cur ==
  [ops |-> ops, reg |-> reg, acct |-> acct, q |-> dbQueue, accounts |-> accounts,
   chans |-> chans, gab |-> globalAborted, trace |-> trace, crash |-> FALSE,
   over |-> FALSE, lat |-> latest, prev |-> previous]

Enqueue(M, kind, o, ch, ids) ==
  [M EXCEPT !.q = Append(@, [kind |-> kind, op |-> o, ch |-> ch, ids |-> ids,
                             objs |-> << >>, react |-> FALSE])]

RECURSIVE AddObjects(_, _)
AddObjects(T, objs) ==
  IF objs = << >> THEN T
  ELSE LET k == Head(objs)[1]
           r == addSnapshot(k, T.lat[k], T.prev[k], Row(Head(objs)[2], "", 0, 0, 0))
       IN AddObjects([lat |-> [T.lat EXCEPT ![k] = r.lat],
                      prev |-> [T.prev EXCEPT ![k] = r.prev],
                      res |-> r.res], Tail(objs))

\* A transaction of ADD_<kind>_SNAPSHOT requests whose replies nobody awaits.
\* The worker's handling of it touches no table a message sync reads and no
\* state of the main loop, so it commutes with every handler and is applied
\* where it is posted; after db.close() was called nothing is written.
CloseRequested(M) == dbClosed \/ \E k \in DOMAIN M.q : M.q[k].kind = "close"
PostObjs(M, objs) ==
  IF CloseRequested(M) THEN M
  ELSE LET T == AddObjects([lat |-> M.lat, prev |-> M.prev, res |-> "none"], objs)
       IN [M EXCEPT !.lat = T.lat, !.prev = T.prev]

MsgKind(tgt) == IF tgt.isThread /\ tgt.priv THEN "pmsg" ELSE "msg"
OpRegKind(op) ==
  IF op.kind = "msg" THEN (IF op.isThread /\ op.priv THEN "pmsg" ELSE "msg")
  ELSE op.ltype

\* getLeastRESTOccupiedAccount: the first account of the iterable with the
\* least numberOfOngoingRESTOperations, "undef" for an empty iterable.
getLeastRESTOccupiedAccount(A, iterable) ==
  IF iterable = << >> THEN "undef"
  ELSE LET least == SetMin({A[iterable[k]].restOps : k \in DOMAIN iterable})
       IN iterable[SetMin({k \in DOMAIN iterable : A[iterable[k]].restOps = least})]
\* getLeastGatewayOccupiedAccount
getLeastGatewayOccupiedAccount(A, iterable) ==
  IF iterable = << >> THEN "undef"
  ELSE LET least == SetMin({A[iterable[k]].gwOps : k \in DOMAIN iterable})
       IN iterable[SetMin({k \in DOMAIN iterable : A[iterable[k]].gwOps = least})]

\* syncMessages, up to its first await: the operation registers itself under
\* (parent channel, channel id), counts itself and asks the database for the
\* last stored message id.
RegisterSync(M, a, tgt, o) ==
  LET k == MsgKind(tgt)
      m == M.reg[a][k][tgt.parent]
      op == [kind |-> "msg", acct |-> a, ch |-> tgt.id, parent |-> tgt.parent,
             isThread |-> tgt.isThread, priv |-> tgt.priv, last |-> tgt.last,
             ltype |-> "none", pc |-> "getLast", aborted |-> FALSE,
             mapRef |-> IF m # NoOp THEN m ELSE o,
             inner |-> IF m # NoOp THEN EmptyInner
                       ELSE [EmptyInner EXCEPT ![tgt.id] = o],
             cursor |-> 0, page |-> << >>, i |-> -1, startMWR |-> -1,
             lastAdd |-> "none", wrote |-> << >>, nRest |-> 0]
      ops1 == Append(M.ops, op)
  IN [M EXCEPT
        !.ops = IF m # NoOp THEN [ops1 EXCEPT ![m].inner[tgt.id] = o] ELSE ops1,
        !.reg[a][k][tgt.parent] = IF m # NoOp THEN m ELSE o,
        !.acct[a].restOps = @ + 1]

syncMessages(M, a, tgt) ==
  IF a = "undef" THEN [M EXCEPT !.crash = TRUE]
  ELSE IF Len(M.ops) >= MaxOps THEN [M EXCEPT !.over = TRUE]
  ELSE LET o == Len(M.ops) + 1
       IN Enqueue(RegisterSync(M, a, tgt, o), "getLast", o, tgt.id, << >>)

\* The end of syncMessages ("Remove this operation from the ongoing syncs
\* list"): ongoingChannelSyncs is the inner Map captured at registration.
UnregisterSync(M, o) ==
  LET op == M.ops[o]
      map == M.ops[op.mapRef].inner
      size == Cardinality({t \in TargetIds : map[t] # NoOp})
  IN IF size > 1
     THEN [M EXCEPT !.ops[op.mapRef].inner[op.ch] = NoOp]
     ELSE [M EXCEPT !.reg[op.acct][OpRegKind(op)][op.parent] = NoOp]

\* The end of syncAllArchivedThreads: ongoingMap.delete(channel).
UnregisterList(M, o) ==
  [M EXCEPT !.reg[M.ops[o].acct][M.ops[o].ltype][M.ops[o].ch] = NoOp]

Finish(M, o) ==
  LET M1 == IF M.ops[o].kind = "msg" THEN UnregisterSync(M, o)
            ELSE UnregisterList(M, o)
  IN [M1 EXCEPT !.ops[o].pc = "done",
                !.acct[M.ops[o].acct].restOps = @ - 1]

\* syncAllArchivedThreads, up to its first await.
syncAllArchivedThreads(M, a, c, type) ==
  IF a = "undef" THEN [M EXCEPT !.crash = TRUE]
  ELSE IF Len(M.ops) >= MaxOps THEN [M EXCEPT !.over = TRUE]
  ELSE LET o == Len(M.ops) + 1
           op == [kind |-> "list", acct |-> a, ch |-> c, parent |-> c,
                  isThread |-> FALSE, priv |-> FALSE, last |-> -1,
                  ltype |-> type, pc |-> "limiter", aborted |-> FALSE,
                  mapRef |-> NoOp, inner |-> EmptyInner,
                  cursor |-> 0, page |-> << >>, i |-> -1, startMWR |-> -1,
                  lastAdd |-> "none", wrote |-> << >>, nRest |-> 0]
       IN [M EXCEPT !.ops = Append(@, op), !.reg[a][type][c] = o]

\* abortController.abort()
Abort(M, o) == [M EXCEPT !.ops[o].aborted = TRUE]

RECURSIVE AbortAll(_, _)
AbortAll(M, S) ==
  IF S = {} THEN M
  ELSE LET o == SetMin(S) IN AbortAll(Abort(M, o), S \ {o})

\* An operation that hangs in waitForAbort continues as soon as the handler
\* that aborted it returns: it throws abortError, which the loop catches.
RECURSIVE Drain(_)
Drain(M) ==
  LET S == {o \in DOMAIN M.ops : M.ops[o].pc = "hang" /\ M.ops[o].aborted}
  IN IF S = {} THEN M ELSE Drain(Finish(M, SetMin(S)))

\* The operations an account's registries lead to.
InnerOps(O, m) == {O[m].inner[t] : t \in TargetIds} \ {NoOp}
RegisteredOps(O, R, a) ==
  UNION {IF R[a][k][c] = NoOp THEN {} ELSE InnerOps(O, R[a][k][c]) :
           k \in {"msg", "pmsg"}, c \in ChanIds}
  \cup ({R[a][k][c] : k \in {"pub", "priv", "joined"}, c \in ChanIds} \ {NoOp})

\* --------------------------------------------------- disconnect and shutdown
Log(M, e, a) == [M EXCEPT !.trace = Append(@, [e |-> e, a |-> a])]

\* disconnectAccount(account)
DestroyGateway(M, a) == Log([M EXCEPT !.acct[a].gwDestroyed = TRUE], "destroy", a)
AbortRegistered(M, a) ==
  Log(AbortAll(M, RegisteredOps(M.ops, M.reg, a)), "abortOps", a)
DeleteAccount(M, a) == Log([M EXCEPT !.accounts = SetDel(@, a)], "delete", a)
disconnectAccount(M, a) ==
  DeleteAccount(AbortRegistered(DestroyGateway(M, a), a), a)

RECURSIVE DisconnectEach(_, _)
DisconnectEach(M, as) ==
  IF as = << >> THEN M
  ELSE DisconnectEach(disconnectAccount(M, Head(as)), Tail(as))

\* stop(): the trace keeps the order of the effects of the last call.
GlobalAbort(M) == Log([M EXCEPT !.gab = TRUE, !.trace = << >>], "globalAbort", "")
DisconnectAll(M) == DisconnectEach(M, M.accounts)
CloseDb(M) == Log(Enqueue(M, "close", NoOp, "", << >>), "dbClose", "")
stop_CloseFirst(M) == DisconnectAll(CloseDb(GlobalAbort(M)))
stop(M) == CloseDb(DisconnectAll(GlobalAbort(M)))

\* ------------------------------------------------------ permission updates
\* The first loop of updateGuildChannelPermissions, over the entries of
\* cachedGuild.accountData: st holds the channel record, the accounts'
\* reference bags and the two sets of accounts that lost a permission.
HasRead(st, a, rp, ad) ==
  hasChannelPermissions(
    computeChannelPermissions(a, FALSE, rp, st.ch.ow, ad.roles[a]), {"READ"})
HasManage(st, a, rp, ad) ==
  /\ HasRead(st, a, rp, ad)
  /\ hasChannelPermissions(
       computeChannelPermissions(a, FALSE, rp, st.ch.ow, ad.roles[a]), {"MANAGE"})
PermRead(st, a, c, hasReadPermission) ==
  IF hasReadPermission
  THEN [st EXCEPT !.ch.read = SetAdd(@, a), !.refs[a] = @ \cup {<<c, "read">>}]
  ELSE IF SetHas(st.ch.read, a)
  THEN [st EXCEPT !.ch.read = SetDel(@, a), !.refs[a] = @ \ {<<c, "read">>},
                  !.lostRead = SetAdd(@, a)]
  ELSE st
PermManage(st, a, c, hasManageThreadsPermission) ==
  IF hasManageThreadsPermission
  THEN [st EXCEPT !.ch.manage = SetAdd(@, a), !.refs[a] = @ \cup {<<c, "manage">>}]
  ELSE IF SetHas(st.ch.read, a)
  THEN [st EXCEPT !.ch.manage = SetDel(@, a), !.refs[a] = @ \ {<<c, "manage">>},
                  !.lostManage = SetAdd(@, a)]
  ELSE st
PermStep(st, a, c, rp, ad) ==
  PermManage(PermRead(st, a, c, HasRead(st, a, rp, ad)), a, c,
             HasManage(st, a, rp, ad))

RECURSIVE PermLoop(_, _, _, _, _)
PermLoop(st, keys, c, rp, ad) ==
  IF keys = << >> THEN st
  ELSE PermLoop(PermStep(st, Head(keys), c, rp, ad), Tail(keys), c, rp, ad)

\* The `sync.channel` of a registry entry, as syncMessages reads it again.
TargetOf(M, o) ==
  LET op == M.ops[o] IN
  IF op.isThread
  THEN [id |-> op.ch, parent |-> op.parent, isThread |-> TRUE, priv |-> op.priv,
        last |-> op.last]
  ELSE ChanTarget(op.ch, M.chans[op.ch])

\* "Abort all message syncs and switch to new account if possible", for one
\* account and one of its two message registries; set names the channel's
\* account set the new account is taken from.
RECURSIVE HandOff(_, _, _, _)
SwitchAccount(M, newAccount, o) ==
  IF newAccount # "undef" THEN syncMessages(M, newAccount, TargetOf(M, o)) ELSE M
HandOffOne(M, o, c, set) ==
  SwitchAccount(M, getLeastRESTOccupiedAccount(M.acct, M.chans[c][set]), o)
HandOff(M, S, c, set) ==
  IF S = {} THEN M
  ELSE HandOff(HandOffOne(Abort(M, SetMin(S)), SetMin(S), c, set),
               S \ {SetMin(S)}, c, set)

RegMapOps(M, a, k, c) ==
  IF M.reg[a][k][c] = NoOp THEN {} ELSE InnerOps(M.ops, M.reg[a][k][c])

RECURSIVE LostRead(_, _, _)
LostRead(M, as, c) ==
  IF as = << >> THEN M
  ELSE LostRead(HandOff(M, RegMapOps(M, Head(as), "msg", c), c, "read"),
                Tail(as), c)

RECURSIVE LostManage(_, _, _)
AbortPrivateList(M, a, c) ==
  IF M.reg[a]["priv"][c] # NoOp THEN Abort(M, M.reg[a]["priv"][c]) ELSE M
HandOffPrivate(M, a, c) == HandOff(M, RegMapOps(M, a, "pmsg", c), c, "manage")
LostManage(M, as, c) ==
  IF as = << >> THEN M
  ELSE LostManage(HandOffPrivate(AbortPrivateList(M, Head(as), c), Head(as), c),
                  Tail(as), c)

\* updateGuildChannelPermissions(cachedChannel); noSync is options["no-sync"],
\* ready is allReady.  (No --guild filter is given.)
syncMessagesLeast(M, c, set, tgt) ==
  syncMessages(M, getLeastRESTOccupiedAccount(M.acct, M.chans[c][set]), tgt)
syncAllArchivedThreadsLeast(M, c, set, type) ==
  syncAllArchivedThreads(M, getLeastRESTOccupiedAccount(M.acct, M.chans[c][set]),
                         c, type)
PermInit(M, c) ==
  [ch |-> M.chans[c], refs |-> [a \in Accounts |-> M.acct[a].refs],
   lostRead |-> << >>, lostManage |-> << >>]
ApplyPerms(M, c, st) ==
  [M EXCEPT !.chans[c] = st.ch,
            !.acct = [a \in Accounts |-> [@[a] EXCEPT !.refs = st.refs[a]]]]
GainedRead(M, c, gained) ==
  IF gained /\ Len(M.chans[c].read) > 0
  THEN syncAllArchivedThreadsLeast(
         syncMessagesLeast(M, c, "read", ChanTarget(c, M.chans[c])), c, "read", "pub")
  ELSE M
GainedManage(M, c, gained) ==
  IF gained /\ Len(M.chans[c].manage) > 0
  THEN syncAllArchivedThreadsLeast(M, c, "manage", "priv")
  ELSE M
PermSyncs(M, c, st, gainedRead, gainedManage) ==
  GainedManage(
    GainedRead(LostManage(LostRead(M, st.lostRead, c), st.lostManage, c),
               c, gainedRead),
    c, gainedManage)
PermApply(M, c, st, noSync, gainedRead, gainedManage) ==
  IF noSync THEN ApplyPerms(M, c, st)
  ELSE PermSyncs(ApplyPerms(M, c, st), c, st, gainedRead, gainedManage)
\* (The variant starts the syncs of a gained permission whether or not all
\* accounts are ready.)
updateGuildChannelPermissions_IgnoringAllReady(M, c, rp, ad, noSync, ready) ==
  PermApply(M, c, PermLoop(PermInit(M, c), ad.keys, c, rp, ad), noSync,
            ~(Len(M.chans[c].read) > 0),
            ~(Len(M.chans[c].manage) > 0))
updateGuildChannelPermissions(M, c, rp, ad, noSync, ready) ==
  PermApply(M, c, PermLoop(PermInit(M, c), ad.keys, c, rp, ad), noSync,
            ready /\ ~(Len(M.chans[c].read) > 0),
            ready /\ ~(Len(M.chans[c].manage) > 0))

\* updateGuildPermissions(cachedGuild): every cached channel, in Map order.
RECURSIVE updateGuildPermissions(_, _, _, _, _, _)
updateGuildPermissions(M, cs, rp, ad, noSync, ready) ==
  IF cs = << >> THEN M
  ELSE updateGuildPermissions(
         updateGuildChannelPermissions(M, Head(cs), rp, ad, noSync, ready),
         Tail(cs), rp, ad, noSync, ready)

\* ------------------------------------------------- the gateway connection
\* One GatewayConnection object (discord-api/gateway/connection.ts), the
\* transports it opens and the server end of each transport.  gw holds the
\* private fields (state, ws, resumeState as rs, live, acked for
\* #wasHeartbeatAcknowledged, hbTimer for an armed #heartbeatTimer,
\* reidentify), the tasks that are pending (pending: connects scheduled by
\* process.nextTick or the 1 s timer; connecting: #connect calls suspended at
\* their await), the transports (made: how many were created; open: not
\* closed; closing: closed by this end, close event not yet delivered), the
\* server end (srv, ackDue), what the last handler emitted and sent (out) and
\* whether a send hit an undefined #ws (fault).  destroyed and beat record
\* that destroy() was called and whether the last heartbeat the timer sent on
\* the transport was acknowledged; url is #url and urlOf the URL each
\* transport was opened to.  lim is #sendPayloadRateLimiter: "none" while the
\* field is undefined, "full" while the limiter has no permit left in its
\* window, else "free"; waiting holds the payloads whose #sendPayload is
\* suspended at whenFree().
MaxTransports == 3
MaxSeq == 2
MaxSessions == 2
MaxWaiting == 2
Transports == 1..MaxTransports
\* #url, set by the constructor (connectAccount passes no resumeState), and
\* the resume_gateway_url of the READY events.
DefaultURL == "wss://gateway.discord.gg/"
ResumeURL == "wss://resume.gateway/"
NoResumeState == [defined |-> FALSE, url |-> "", sessionID |-> 0, seq |-> 0]

GwInit(reidentify) ==
  [state |-> "CONNECTING", ws |-> 0, rs |-> NoResumeState, live |-> TRUE,
   acked |-> TRUE, hbTimer |-> FALSE, reidentify |-> reidentify,
   pending |-> 1, connecting |-> 0, made |-> 0, open |-> {}, closing |-> {},
   srv |-> [w \in Transports |-> "none"], ackDue |-> {}, out |-> << >>,
   fault |-> FALSE, destroyed |-> FALSE, beat |-> "none",
   url |-> DefaultURL, urlOf |-> [w \in Transports |-> ""],
   lim |-> "none", waiting |-> << >>]

Out(e, w, sid, seq, live) == [e |-> e, w |-> w, sid |-> sid, seq |-> seq, live |-> live]
emit(g, e) == [g EXCEPT !.out = Append(@, Out(e, g.ws, 0, 0, g.live))]

\* What the server end does with a payload it receives on transport w.
Received(srvState, op) ==
  IF op = "IDENTIFY" THEN "identified"
  ELSE IF op = "RESUME" THEN "replaying"
  ELSE srvState

\* this.#ws!.send(...) of #sendPayload, which throws when #ws is undefined.
wsSend(g, op, sid, seq) ==
  IF g.ws = 0 THEN [g EXCEPT !.fault = TRUE]
  ELSE [g EXCEPT !.out = Append(@, Out(op, g.ws, sid, seq, g.live)),
                 !.srv[g.ws] = Received(@, op),
                 !.ackDue = IF op = "HEARTBEAT" THEN @ \cup {g.ws} ELSE @]

\* #sendPayload: await this.#sendPayloadRateLimiter!.whenFree(), which
\* throws when the field is undefined, completes in a microtask of the
\* calling handler when the limiter has a permit, and otherwise suspends the
\* send until a permit ages out.
sendPayloadNow(g, op, sid, seq) ==
  IF g.lim = "none" THEN [g EXCEPT !.fault = TRUE]
  ELSE IF g.lim = "full"
  THEN [g EXCEPT !.waiting = Append(@, [op |-> op, sid |-> sid, seq |-> seq])]
  ELSE wsSend(g, op, sid, seq)

sendHeartbeat(g) == sendPayloadNow(g, "HEARTBEAT", 0, g.rs.seq)
startHeartbeating(g) == [g EXCEPT !.hbTimer = TRUE]
stopHeartbeating(g) == [g EXCEPT !.hbTimer = FALSE]

resumeOrIdentify(g) ==
  IF ~g.rs.defined
  THEN sendPayloadNow([g EXCEPT !.state = "IDENTIFYING", !.live = TRUE],
                      "IDENTIFY", 0, 0)
  ELSE sendPayloadNow([g EXCEPT !.state = "IDENTIFYING", !.live = FALSE],
                      "RESUME", g.rs.sessionID, g.rs.seq)

\* this.#ws?.close(code)
wsClose(g) ==
  IF g.ws = 0 THEN g
  ELSE [g EXCEPT !.open = @ \ {g.ws}, !.closing = @ \cup ({g.ws} \cap g.open)]
disconnect(g) == [wsClose(stopHeartbeating(g)) EXCEPT !.ws = 0]

\* #connect up to its await, and from the await on.
connect(g) ==
  [emit(g, "connecting") EXCEPT !.state = "CONNECTING", !.acked = TRUE,
                                !.connecting = @ + 1, !.lim = "free"]
connectOpen(g) ==
  [g EXCEPT !.connecting = @ - 1, !.made = @ + 1, !.ws = g.made + 1,
            !.open = @ \cup {g.made + 1}, !.srv[g.made + 1] = "connected",
            !.beat = "none", !.urlOf[g.made + 1] = g.url]
reconnect(g) == connect(disconnect(g))
error(g) == disconnect(emit(g, "error"))

destroy(g) == [disconnect(g) EXCEPT !.state = "DESTROYED", !.destroyed = TRUE]

Reconnectable(code) == code < 4000 \/ (code >= 4000 /\ code < 4010 /\ code # 4004)
scheduleConnect(g) == [g EXCEPT !.pending = @ + 1]
onClose_AlwaysReconnecting(g, code) ==
  [(IF g.ws # 0
    THEN scheduleConnect(emit(stopHeartbeating(g), "connectionLost"))
    ELSE stopHeartbeating(g)) EXCEPT !.ws = 0, !.lim = "none"]
onClose(g, code) ==
  IF Reconnectable(code)
  THEN [(IF g.ws # 0
         THEN scheduleConnect(emit(stopHeartbeating(g), "connectionLost"))
         ELSE stopHeartbeating(g)) EXCEPT !.ws = 0, !.lim = "none"]
  ELSE error(g)

\* ws.once("close", ...): the listener of transport w.
closeListener(g, w, code) == IF w = g.ws THEN onClose(g, code) ELSE g

\* #onPayload, by opcode.
onDispatch(g, t, sid, s) ==
  IF t # "READY" /\ ~g.rs.defined THEN error(g)
  ELSE [g EXCEPT !.state = IF t = "READY" THEN "READY" ELSE @,
                 !.rs = [defined |-> TRUE,
                         url |-> IF t = "READY" THEN ResumeURL ELSE @.url,
                         sessionID |-> IF t = "READY" THEN sid ELSE @.sessionID,
                         seq |-> s],
                 !.out = Append(@, Out("dispatch", g.ws, 0, s, g.live))]
onHello(g) ==
  resumeOrIdentify(startHeartbeating(IF g.state # "CONNECTING" THEN error(g) ELSE g))
onInvalidSession_KeepingState(g, d) ==
  IF d \/ g.reidentify THEN resumeOrIdentify(emit(g, "sessionLost"))
  ELSE destroy([emit(g, "sessionLost") EXCEPT !.rs = NoResumeState])
onInvalidSession(g, d) ==
  IF d THEN resumeOrIdentify(g)
  ELSE IF g.reidentify
  THEN resumeOrIdentify([emit(g, "sessionLost") EXCEPT !.rs = NoResumeState])
  ELSE destroy([emit(g, "sessionLost") EXCEPT !.rs = NoResumeState])

\* The handler of the heartbeat timer.
heartbeatHandler_AlwaysSending(g) ==
  sendHeartbeat([g EXCEPT !.acked = FALSE, !.beat = "sent"])
heartbeatHandler(g) ==
  IF g.acked
  THEN sendHeartbeat([g EXCEPT !.acked = FALSE, !.beat = "sent"])
  ELSE reconnect([g EXCEPT !.hbTimer = FALSE])

\* ----------------------------------------------------------------- apiReq
\* One call of apiReq (discord-api/rest.ts): pc is where the call stands
\* ("idle" before the call, "fetch" at `await fetch`, "wait" at
\* `await timeout(interval, ...)`, "returned", "thrown"), interval the local
\* of that name, failures the number of consecutive failed attempts so far
\* and wait the delay of the timeout that is running.
MaxFailures == 4
BackoffStep == 2000
BackoffCap == 60000
ApiStatuses == {200, 404, 429, 500, 503}
ApiInit ==
  [pc |-> "idle", abortIfFail |-> FALSE, interval |-> 0, failures |-> 0,
   wait |-> 0, status |-> 0, aborted |-> FALSE]
Max(a, b) == IF a >= b THEN a ELSE b
Min(a, b) == IF a <= b THEN a ELSE b
nextInterval(interval) == Max(interval + BackoffStep, BackoffCap)
IsFailure(status) == status = 429 \/ (status >= 500 /\ status < 600)

\* The end of one pass of the loop that did not return: lines 421-424.
retry(p, status, aborted) ==
  IF aborted
  THEN [p EXCEPT !.pc = "thrown", !.status = status, !.aborted = TRUE]
  ELSE [p EXCEPT !.pc = "wait", !.status = status, !.failures = @ + 1,
                 !.wait = p.interval]
onResponse(p, status, aborted) ==
  IF IsFailure(status) THEN retry(p, status, aborted)
  ELSE [p EXCEPT !.pc = "returned", !.status = status,
                 !.aborted = p.abortIfFail /\ status >= 400]

\* ------------------------------------------------------------ initial state
AccountOrder == << "a1", "a2" >>
ChanOrder == << "c1", "c2" >>
ThreadOrder == << "t1" >>
NoOverwrites == [p \in {} |-> [allow |-> {}, deny |-> {}]]
DenyRead == [p \in {"everyone"} |-> [allow |-> {}, deny |-> {"READ"}]]
OverwriteChoices == {NoOverwrites, DenyRead}
RolePermChoices == {{}, {"READ"}, {"READ", "MANAGE"}}
EveryonePerms == {"VIEW"}

NoChannel ==
  [cached |-> FALSE, ow |-> NoOverwrites, read |-> << >>, manage |-> << >>,
   syncInfo |-> [present |-> FALSE, last |-> -1, activeThreads |-> << >>]]

\* The process right after the module body of archiver/index.ts has run:
\* connectAccount was called for every token.
ProcInit ==
  [phase |-> "run",
   globalAborted |-> FALSE,
   allReady |-> FALSE,
   accounts |-> AccountOrder,
   acct |-> [a \in Accounts |->
              [details |-> FALSE, ready |-> FALSE, gotGuild |-> FALSE,
               guildsLeft |-> 0, restOps |-> 0, gwOps |-> 0, memberReqs |-> {},
               gwDestroyed |-> FALSE, refs |-> {}]],
   reg |-> [a \in Accounts |-> EmptyReg],
   guildCached |-> FALSE,
   rolePerms |-> [r \in Roles |-> {}],
   accountData |-> [keys |-> << >>, roles |-> [a \in Accounts |-> {}]],
   chans |-> [c \in ChanIds |-> NoChannel],
   ops |-> << >>,
   trace |-> << >>,
   signalled |-> FALSE,
   events |-> 0]

\* The members of the guild and the chunks the platform answers a member
\* request with.
NChunks == 2
MemberIds == {"u1", "u2"}
ChunkMembers(k) == IF k = 1 THEN << "u1" >> ELSE << "u2" >>
\* ids, isNull: cachedGuild.memberUserIDs (a Set, or null); sent: the chunks
\* the platform has delivered of the account's request; synced: the userIDs
\* of the SYNC_GUILD_MEMBERS requests posted; lost: the account's session was
\* lost and READY has not arrived again; interrupted: a member request was
\* in flight when a session was lost.
MembersInit ==
  [ids |-> {}, isNull |-> FALSE, sent |-> [a \in Accounts |-> 0],
   synced |-> << >>, lost |-> [a \in Accounts |-> FALSE], interrupted |-> FALSE]

NoReply == [n |-> 0, kind |-> "none", obj |-> Row("", "", 0, 0, 0), res |-> "none"]

InitThreads(r, o, g, ts) ==
  /\ platMsgs = [t \in TargetIds |-> IF t = "c1" THEN 1..InitMsgs ELSE {}]
  /\ reacted = r
  /\ threadState = ts
  /\ nextMsg = InitMsgs + 1
  /\ dbQueue = << >>
  /\ latest = [k \in Kinds |-> {}]
  /\ previous = [k \in Kinds |-> {}]
  /\ dbClosed = FALSE
  /\ reply = NoReply
  /\ opts = o
  /\ gw = g
  /\ api = ApiInit
  /\ members = MembersInit
  /\ restarts = 0
  /\ memberRoles = [a \in Accounts |-> {}]
  /\ phase = ProcInit.phase
  /\ globalAborted = ProcInit.globalAborted
  /\ allReady = ProcInit.allReady
  /\ accounts = ProcInit.accounts
  /\ acct = ProcInit.acct
  /\ reg = ProcInit.reg
  /\ guildCached = ProcInit.guildCached
  /\ rolePerms = ProcInit.rolePerms
  /\ accountData = ProcInit.accountData
  /\ chans = ProcInit.chans
  /\ ops = ProcInit.ops
  /\ trace = ProcInit.trace
  /\ signalled = ProcInit.signalled
  /\ events = ProcInit.events

InitOpts(r, o, g) == InitThreads(r, o, g, [t \in ThreadIds |-> "active"])

\* Neither --no-sync nor --no-reactions is given; the connection is built
\* as connectAccount builds it (reidentify left at its default).
InitWith(r) ==
  InitOpts(r, [noSync |-> FALSE, noReactions |-> FALSE], GwInit(TRUE))

\* No message carries reactions.
Init == InitWith({})
\* At most one of the messages carries reactions.
InitReactions ==
  \E r \in {S \in SUBSET (1..InitMsgs) : Cardinality(S) <= 1} : InitWith(r)

\* What a handler leaves behind.
Commit(M0) ==
  LET M == Drain(M0) IN
  /\ ~M.over
  /\ ops' = M.ops
  /\ reg' = M.reg
  /\ acct' = M.acct
  /\ dbQueue' = M.q
  /\ latest' = M.lat
  /\ previous' = M.prev
  /\ accounts' = M.accounts
  /\ chans' = M.chans
  /\ globalAborted' = M.gab
  /\ trace' = M.trace
  /\ phase' = IF M.crash THEN "crashed" ELSE phase

Running == phase = "run"
Listening(a) == Running /\ ~acct[a].gwDestroyed
CachedChans(C) == SelectSeq(ChanOrder, LAMBDA c : C[c].cached)
ActiveThreads == SelectSeq(ThreadOrder, LAMBDA t : threadState[t] = "active")
ArchivedThreads == SelectSeq(ThreadOrder, LAMBDA t : threadState[t] = "archived")
PrivateThreads == SelectSeq(ThreadOrder, LAMBDA t : threadState[t] = "private")
\* ------------------------------------------------------ gateway dispatches
\* READY: the account learns its own id and the number of its guilds.
Ready(a) ==
  /\ Listening(a) /\ ~acct[a].details
  /\ acct' = [acct EXCEPT ![a].details = TRUE, ![a].guildsLeft = 1]
  /\ UNCHANGED << platformVars, dbVars, cacheVars, phase, globalAborted,
                  allReady, accounts, reg, ops, trace, signalled, memberRoles, opts, gw, api, members, events,
                  restarts >>

\* READY that lists no guild.
ReadyNoGuilds(a) ==
  /\ Listening(a) /\ ~acct[a].details
  /\ acct' = [acct EXCEPT ![a].details = TRUE, ![a].guildsLeft = 0]
  /\ UNCHANGED << platformVars, dbVars, cacheVars, phase, globalAborted,
                  allReady, accounts, reg, ops, trace, signalled, memberRoles,
                  opts, gw, api, members, events, restarts >>

\* receivedGuildInfo()
receivedGuildInfo(A, a) ==
  IF ~A[a].ready
  THEN [A EXCEPT ![a].guildsLeft = @ - 1, ![a].ready = (A[a].guildsLeft - 1 = 0)]
  ELSE A

\* syncAllGuildMembers(account, cachedGuild).  sendPayload is async and
\* throws when the connection is not READY, here when it was destroyed or
\* has lost its session and not identified again.
syncAllGuildMembers(M, a) ==
  IF a = "undef" THEN [M EXCEPT !.crash = TRUE]
  ELSE [M EXCEPT !.acct[a].memberReqs = @ \cup {"g"},
                 !.acct[a].gwOps = @ + 1,
                 !.crash = @ \/ M.acct[a].gwDestroyed \/ members.lost[a]]

GuildObjs ==
  << <<"guild", "g">>, <<"role", "everyone">>, <<"role", "r1">>,
     <<"channel", "c1">> >>
  \o [k \in 1..Len(ActiveThreads) |-> <<"channel", ActiveThreads[k]>>]

\* The bulk pass for one channel of the guild.
RECURSIVE SyncThreads(_, _, _)
SyncThreads(M, ts, c) ==
  IF ts = << >> THEN M
  ELSE SyncThreads(
         syncMessagesLeast(M, c, "read", extractThreadInfo(Head(ts), platMsgs[Head(ts)])),
         Tail(ts), c)

BulkPrivate(M, c) ==
  IF Len(M.chans[c].manage) > 0
  THEN syncAllArchivedThreadsLeast(M, c, "manage", "priv") ELSE M
BulkSyncs(M, c) ==
  syncMessagesLeast(
    syncAllArchivedThreadsLeast(
      SyncThreads(BulkPrivate(M, c), M.chans[c].syncInfo.activeThreads, c),
      c, "read", "pub"),
    c, "read", ChanTarget(c, M.chans[c]))
ClearSyncInfo(M, c) ==
  [M EXCEPT !.chans[c].syncInfo =
     [present |-> FALSE, last |-> -1, activeThreads |-> << >>]]
BulkChannel(M, c) ==
  ClearSyncInfo(IF Len(M.chans[c].read) > 0 THEN BulkSyncs(M, c) ELSE M, c)

RECURSIVE BulkChannels(_, _)
BulkChannels(M, cs) ==
  IF cs = << >> THEN M ELSE BulkChannels(BulkChannel(M, Head(cs)), Tail(cs))

\* Promise.all(connectAccount ...).then(...): runs as soon as the handler in
\* which the last account became ready has returned.
AllReady(M, keys) ==
  IF opts.noSync THEN M
  ELSE BulkChannels(
         syncAllGuildMembers(M, getLeastGatewayOccupiedAccount(M.acct, keys)),
         CachedChans(M.chans))

\* GUILD_CREATE received by account a; roles are the roles of a's own member
\* and pR the permissions of role r1 in the payload.  The first GUILD_CREATE
\* of an account is part of its start; later ones count as events.
NewGuildCache ==
  [c \in ChanIds |->
     IF c = "c1"
     THEN [cached |-> TRUE, ow |-> NoOverwrites, read |-> << >>, manage |-> << >>,
           syncInfo |-> [present |-> TRUE,
                         last |-> IF platMsgs["c1"] = {} THEN -1
                                  ELSE SetMax(platMsgs["c1"]),
                         activeThreads |-> ActiveThreads]]
     ELSE NoChannel]
MemberSyncIfReady(M, keys) ==
  IF allReady /\ getLeastGatewayOccupiedAccount(M.acct, keys) # "undef"
  THEN syncAllGuildMembers(M, getLeastGatewayOccupiedAccount(M.acct, keys))
  ELSE M
AllReadyIf(M, keys, nowReady) == IF nowReady THEN AllReady(M, keys) ELSE M
CacheGuild(M, rp, ad) ==
  IF ~guildCached
  THEN PostObjs(updateGuildPermissions([M EXCEPT !.chans = NewGuildCache],
                                       CachedChans(NewGuildCache), rp, ad,
                                       opts.noSync, allReady),
                GuildObjs)
  ELSE M
GuildCreate(a, roles, pR) ==
  /\ Listening(a) /\ acct[a].details /\ ~members.lost[a]
  /\ acct[a].gotGuild => events < MaxEvents
  /\ events' = IF acct[a].gotGuild THEN events + 1 ELSE events
  /\ memberRoles' = [memberRoles EXCEPT ![a] = roles]
  /\ LET A1 == [receivedGuildInfo(acct, a) EXCEPT ![a].gotGuild = TRUE]
         rp == [r \in Roles |-> IF r = "everyone" THEN EveryonePerms ELSE pR]
         ad == [keys |-> << a >>, roles |-> [accountData.roles EXCEPT ![a] = roles]]
         keys == IF guildCached THEN accountData.keys ELSE << a >>
         nowReady == ~allReady /\ \A b \in Accounts : A1[b].ready
     IN /\ guildCached' = TRUE
        /\ rolePerms' = IF guildCached THEN rolePerms ELSE rp
        /\ accountData' = IF guildCached THEN accountData ELSE ad
        /\ allReady' = (allReady \/ nowReady)
        /\ Commit(AllReadyIf(
                    MemberSyncIfReady(CacheGuild([Cur EXCEPT !.acct = A1], rp, ad),
                                      keys),
                    keys, nowReady))
  /\ UNCHANGED << platformVars, dbClosed, reply, signalled, opts, gw, api, members, restarts >>

\* GUILD_ROLE_UPDATE for role r1 with permissions p.
UpdatePermsIf(M, changed, rp, ad) ==
  IF changed
  THEN updateGuildPermissions(M, CachedChans(M.chans), rp, ad, opts.noSync, allReady)
  ELSE M
GuildRoleUpdate(a, p) ==
  /\ Listening(a) /\ acct[a].details /\ guildCached /\ events < MaxEvents
  /\ events' = events + 1
  /\ rolePerms' = [rolePerms EXCEPT !["r1"] = p]
  /\ Commit(UpdatePermsIf(PostObjs(Cur, << <<"role", "r1">> >>),
                          rolePerms["r1"] # p,
                          [rolePerms EXCEPT !["r1"] = p], accountData))
  /\ UNCHANGED << platformVars, dbClosed, reply, allReady, guildCached, accountData,
                  memberRoles, signalled, opts, gw, api, members, restarts >>

\* GUILD_MEMBER_UPDATE about the member of account b, received by account a.
GuildMemberUpdate(a, b, roles) ==
  /\ Listening(a) /\ acct[a].details /\ guildCached /\ events < MaxEvents
  /\ acct[b].details
  /\ events' = events + 1
  /\ memberRoles' = [memberRoles EXCEPT ![b] = roles]
  /\ LET changed == SetHas(accountData.keys, b) /\ accountData.roles[b] # roles
         ad == [accountData EXCEPT !.roles[b] = roles]
     IN /\ accountData' = IF changed THEN ad ELSE accountData
        /\ Commit(UpdatePermsIf(PostObjs(Cur, << <<"member", b>> >>), changed,
                                rolePerms, ad))
  /\ UNCHANGED << platformVars, dbClosed, reply, allReady, guildCached, rolePerms,
                  signalled, opts, gw, api, members, restarts >>

\* CHANNEL_CREATE for channel c2: createCachedChannel, textChannels.set.
createCachedChannel(ow) ==
  [cached |-> TRUE, ow |-> ow, read |-> << >>, manage |-> << >>,
   syncInfo |-> [present |-> TRUE, last |-> -1, activeThreads |-> << >>]]

ChannelCreate(a) ==
  /\ Listening(a) /\ acct[a].details /\ guildCached /\ events < MaxEvents
  /\ events' = events + 1
  /\ Commit([PostObjs(Cur, << <<"channel", "c2">> >>)
               EXCEPT !.chans["c2"] = createCachedChannel(NoOverwrites)])
  /\ UNCHANGED << platformVars, dbClosed, reply, allReady, guildCached, rolePerms,
                  accountData, memberRoles, signalled, opts, gw, api, members, restarts >>

\* CHANNEL_UPDATE for channel c with overwrites ow.  didPermsChange is
\* areMapsEqual(cachedChannel.permissionOverwrites,
\* cachedChannel.permissionOverwrites, ...): a map equals itself.
SetOverwrites(M, c, ow) == [M EXCEPT !.chans[c].ow = ow]
ChannelUpdate(a, c, ow) ==
  /\ Listening(a) /\ acct[a].details /\ guildCached /\ events < MaxEvents
  /\ chans[c].cached
  /\ events' = events + 1
  /\ LET didPermsChange == chans[c].ow = chans[c].ow
     IN Commit(IF didPermsChange
               THEN updateGuildChannelPermissions(
                      SetOverwrites(PostObjs(Cur, << <<"channel", c>> >>), c, ow),
                      c, rolePerms, accountData, opts.noSync, allReady)
               ELSE PostObjs(Cur, << <<"channel", c>> >>))
  /\ UNCHANGED << platformVars, dbClosed, reply, allReady, guildCached, rolePerms,
                  accountData, memberRoles, signalled, opts, gw, api, members, restarts >>

\* THREAD_LIST_SYNC listing the active threads of the guild.
IsSyncing(M, keys, c, t) ==
  \E b \in Range(keys) :
    M.reg[b]["msg"][c] # NoOp /\ M.ops[M.reg[b]["msg"][c]].inner[t] # NoOp

RECURSIVE ListSyncThreads(_, _, _)
ListSyncThread(M, t, keys) ==
  IF ~M.chans["c1"].cached \/ IsSyncing(M, keys, "c1", t) THEN M
  ELSE syncMessagesLeast(M, "c1", "read", extractThreadInfo(t, platMsgs[t]))
ListSyncThreads(M, ts, keys) ==
  IF ts = << >> THEN M
  ELSE ListSyncThreads(ListSyncThread(M, Head(ts), keys), Tail(ts), keys)

ThreadObjs(ts) == [k \in 1..Len(ts) |-> <<"channel", ts[k]>>]
ThreadListSync(a) ==
  /\ Listening(a) /\ acct[a].details /\ guildCached /\ events < MaxEvents
  /\ ActiveThreads # << >>
  /\ events' = events + 1
  /\ Commit(IF allReady
            THEN ListSyncThreads(PostObjs(Cur, ThreadObjs(ActiveThreads)),
                                 ActiveThreads, accountData.keys)
            ELSE PostObjs(Cur, ThreadObjs(ActiveThreads)))
  /\ UNCHANGED << platformVars, dbClosed, reply, allReady, guildCached, rolePerms,
                  accountData, memberRoles, signalled, opts, gw, api, members, restarts >>

\* ------------------------------------------------- the steps of an operation
\* The process is alive: its event loop still runs handlers.
Alive == phase = "run"

\* GET /channels/<ch>/messages?limit=<PageLimit>&after=<cursor>: the oldest
\* PageLimit messages after the cursor, newest first.
RECURSIVE Oldest(_, _)
Oldest(S, n) ==
  IF n = 0 \/ S = {} THEN << >>
  ELSE LET m == SetMin(S) IN << m >> \o Oldest(S \ {m}, n - 1)
Reverse(s) == [k \in 1..Len(s) |-> s[Len(s) + 1 - k]]
MsgPage(ch, cursor) ==
  Reverse(Oldest({m \in platMsgs[ch] : m > cursor}, PageLimit))

\* db.transaction with ADD_MESSAGE_SNAPSHOT requests for ids, in this order,
\* posted by operation o (and ADD_INITIAL_REACTIONS when react).
EnqueueMsgs(M, o, ids, react) ==
  LET e == [kind |-> "msgs", op |-> o, ch |-> M.ops[o].ch, ids |-> ids,
            objs |-> << >>, react |-> react]
  IN [M EXCEPT !.q = Append(@, e), !.ops[o].wrote = @ \o ids]

flushMessagesWithoutReactions_PageOrder(M, o) ==
  LET op == M.ops[o] IN
  IF op.startMWR = op.i THEN M
  ELSE EnqueueMsgs(M, o, [k \in 1..(op.startMWR - op.i) |->
                            op.page[op.i + k]], FALSE)

\* flushMessagesWithoutReactions(): messages[startMWRIndex .. i+1].
flushMessagesWithoutReactions(M, o) ==
  LET op == M.ops[o] IN
  IF op.startMWR = op.i THEN M
  ELSE EnqueueMsgs(M, o, [k \in 1..(op.startMWR - op.i) |->
                            op.page[op.startMWR + 1 - k]], FALSE)

Pending(q, o) == \E k \in DOMAIN q : q[k].kind = "msgs" /\ q[k].op = o

\* (The variant asks for the next page after every full page.)
AfterPage_IgnoringAddResult(M, o) ==
  IF Len(M.ops[o].page) < PageLimit THEN Finish(M, o)
  ELSE [M EXCEPT !.ops[o].pc = "limiter"]
\* After `await lastMessageAddPromise`: the end of one loop iteration.
AfterPage(M, o) ==
  LET op == M.ops[o] IN
  IF op.lastAdd = "ERROR" THEN [Finish(M, o) EXCEPT !.crash = TRUE]
  ELSE IF op.lastAdd # "FIRST" THEN Finish(M, o)
  ELSE IF Len(op.page) < PageLimit THEN Finish(M, o)
  ELSE [M EXCEPT !.ops[o].pc = "limiter"]

\* The for loop over the page, from index i down, up to the next await.
\* Indices are 1-based: the code's i is op.i - 1.
RECURSIVE ContinuePage(_, _)
EndOfPage(M, o) ==
  IF Pending(M.q, o) THEN [M EXCEPT !.ops[o].pc = "dbwait"] ELSE AfterPage(M, o)
StartReactions(M, o, i) ==
  [M EXCEPT !.ops[o].startMWR = i - 1, !.ops[o].pc = "rlimiter"]
ContinuePage(M, o) ==
  IF M.ops[o].i = 0 THEN EndOfPage(flushMessagesWithoutReactions(M, o), o)
  ELSE IF ~opts.noReactions /\ M.ops[o].page[M.ops[o].i] \in reacted
  THEN StartReactions(flushMessagesWithoutReactions(M, o), o, M.ops[o].i)
  ELSE ContinuePage([M EXCEPT !.ops[o].i = @ - 1], o)

\* A 200 response with a page of messages.
StartPage(M, o, messages) ==
  IF Len(messages) > 0
  THEN ContinuePage([M EXCEPT !.ops[o].page = messages,
                              !.ops[o].cursor = messages[1],
                              !.ops[o].i = Len(messages),
                              !.ops[o].startMWR = Len(messages)], o)
  ELSE Finish([M EXCEPT !.ops[o].page = messages], o)
GotMessages(M, o) == StartPage(M, o, MsgPage(M.ops[o].ch, M.ops[o].cursor))

\* A 200 response with the users who reacted to messages[i].
NextIndex(M, o) == [M EXCEPT !.ops[o].i = @ - 1]
GotReactions(M, o) ==
  ContinuePage(
    NextIndex(EnqueueMsgs(M, o, << M.ops[o].page[M.ops[o].i] >>, TRUE), o), o)

\* A 200 response with a page of archived threads (has_more is false).
RECURSIVE SpawnThreadSyncs(_, _, _)
SpawnThreadSyncs(M, ts, c) ==
  IF ts = << >> THEN M
  ELSE SpawnThreadSyncs(
         syncMessagesLeast(M, c, "read", extractThreadInfo(Head(ts), platMsgs[Head(ts)])),
         Tail(ts), c)

ListedThreads(M, o) ==
  IF M.ops[o].ltype = "pub" THEN ArchivedThreads
  ELSE IF M.ops[o].ltype = "priv" THEN PrivateThreads
  ELSE << >>
GotThreads(M, o, threads) ==
  IF Len(threads) > 0
  THEN SpawnThreadSyncs(PostObjs(M, ThreadObjs(Reverse(threads))), threads,
                        M.ops[o].ch)
  ELSE M
GotThreadList(M, o) == Finish(GotThreads(M, o, ListedThreads(M, o)), o)

\* account.request(...) of operation o, from the rate limiter to the
\* response.  fetch with an aborted signal rejects without sending anything
\* (abortError, caught by the loop).  The request and its response are one
\* step: a handler that runs between them and does not abort the operation
\* commutes with the sending, and one that aborts it makes fetch reject.
StopIfNoAccounts(M) == IF M.accounts = << >> THEN stop(M) ELSE M
Unauthorized(M, a) == StopIfNoAccounts(disconnectAccount(M, a))
Sent(M, o) == [M EXCEPT !.ops[o].nRest = @ + 1]
Response(M, o, status) ==
  IF status = 401 THEN Finish(Unauthorized(M, M.ops[o].acct), o)
  ELSE IF status \in {403, 404} THEN [M EXCEPT !.ops[o].pc = "hang"]
  ELSE IF M.ops[o].kind = "list" THEN GotThreadList(M, o)
  ELSE IF M.ops[o].pc = "limiter" THEN GotMessages(M, o)
  ELSE GotReactions(M, o)
request_IgnoringAbort(o, status) ==
  /\ Alive /\ o \in DOMAIN ops /\ ops[o].pc \in {"limiter", "rlimiter"}
  /\ status # 200 => events < MaxEvents
  /\ events' = IF status # 200 THEN events + 1 ELSE events
  /\ Commit(Response(Sent(Cur, o), o, status))
  /\ UNCHANGED << platformVars, dbClosed, reply, allReady, cacheVars2, memberRoles,
                  signalled, opts, gw, api, members, restarts >>
request(o, status) ==
  /\ Alive /\ o \in DOMAIN ops /\ ops[o].pc \in {"limiter", "rlimiter"}
  /\ ops[o].aborted => status = 200
  /\ status # 200 => events < MaxEvents
  /\ events' = IF status # 200 THEN events + 1 ELSE events
  /\ Commit(IF ops[o].aborted THEN Finish(Cur, o)
            ELSE Response(Sent(Cur, o), o, status))
  /\ UNCHANGED << platformVars, dbClosed, reply, allReady, cacheVars2, memberRoles,
                  signalled, opts, gw, api, members, restarts >>

\* ------------------------------------------------------ the database worker
\* The worker handles the posted transactions in order (db/worker.ts); the
\* reply to the last request of a transaction resumes the operation that
\* awaits it.  tables is [lat, prev, res].
RECURSIVE AddMessages(_, _, _)
AddMessages(T, ch, ids) ==
  IF ids = << >> THEN T
  ELSE LET r == addSnapshot("message", T.lat["message"], T.prev["message"],
                            Row(Head(ids), ch, 0, 0, 0))
       IN AddMessages([lat |-> [T.lat EXCEPT !["message"] = r.lat],
                       prev |-> [T.prev EXCEPT !["message"] = r.prev],
                       res |-> r.res], ch, Tail(ids))

\* ADD_INITIAL_REACTIONS for the one message of a reaction transaction.
AddReactions(T, e) ==
  IF e.react
  THEN [T EXCEPT !.lat["reaction"] = @ \cup {Row(e.ids[1], e.ch, 0, 0, 0)}]
  ELSE T

\* syncMessages after `await db.request(GET_LAST_MESSAGE_ID)`.
GotLastMessageID(M, o, lastStoredMessageID) ==
  LET lastMessageID == M.ops[o].last IN
  IF lastMessageID = -1 \/ lastStoredMessageID = -1
     \/ lastStoredMessageID < lastMessageID
  THEN [M EXCEPT !.ops[o].pc = "limiter",
                 !.ops[o].cursor = IF lastStoredMessageID = -1 THEN 0
                                   ELSE lastStoredMessageID]
  ELSE Finish(M, o)

\* ADD_REACTION_PLACEMENT for message e.ids[1]: nothing is inserted when an
\* open row exists (checkForReaction) or when the message is not stored (the
\* foreign key error is caught).
AddPlacement(M, e) ==
  IF HasRow(M.lat["message"], e.ids[1]) /\ ~HasRow(M.lat["reaction"], e.ids[1])
  THEN [M EXCEPT !.lat["reaction"] =
          @ \cup {Row(e.ids[1], e.ch, encodeTiming(1, TRUE), 0, 0)}]
  ELSE M

PopQueue(M) == [M EXCEPT !.q = Tail(@)]
ResumeIfWaiting(M, o) ==
  IF M.ops[o].pc = "dbwait" /\ ~Pending(M.q, o) THEN AfterPage(M, o) ELSE M
Replied(M, o, res) ==
  IF o = NoOp THEN M ELSE ResumeIfWaiting([M EXCEPT !.ops[o].lastAdd = res], o)
Stored(M, e, T) == Replied([M EXCEPT !.lat = T.lat, !.prev = T.prev], e.op, T.res)
Handle(M, e) ==
  IF e.kind = "getLast"
  THEN GotLastMessageID(M, e.op, getLastMessageID(M.lat["message"], e.ch))
  ELSE IF e.kind = "msgs"
  THEN Stored(M, e, AddReactions(
                      AddMessages([lat |-> M.lat, prev |-> M.prev, res |-> "none"],
                                  e.ch, e.ids), e))
  ELSE IF e.kind = "placement" THEN AddPlacement(M, e)
  ELSE M
DbStep ==
  /\ Alive /\ ~dbClosed /\ dbQueue # << >>
  /\ dbClosed' = (Head(dbQueue).kind = "close")
  /\ Commit(Handle(PopQueue(Cur), Head(dbQueue)))
  /\ UNCHANGED << reply, platformVars, allReady, cacheVars2, memberRoles, signalled,
                  opts, gw, api, members, events, restarts >>

\* --------------------------------------------------------------- the platform
\* A message is posted in channel c1.  Every account whose gateway
\* connection is up gets a MESSAGE_CREATE dispatch; the handlers run back to
\* back and each posts one transaction.
RECURSIVE DispatchMessageCreate(_, _, _)
DispatchMessageCreate(q, as, id) ==
  IF as = << >> THEN q
  ELSE DispatchMessageCreate(
         IF Listening(Head(as)) /\ acct[Head(as)].details
         THEN Append(q, [kind |-> "msgs", op |-> NoOp, ch |-> "c1",
                         ids |-> << id >>, objs |-> << >>, react |-> FALSE])
         ELSE q, Tail(as), id)

MessageCreate ==
  /\ nextMsg <= InitMsgs + MaxNewMsgs
  /\ platMsgs' = [platMsgs EXCEPT !["c1"] = @ \cup {nextMsg}]
  /\ nextMsg' = nextMsg + 1
  /\ dbQueue' = DispatchMessageCreate(dbQueue, AccountOrder, nextMsg)
  /\ UNCHANGED << reacted, threadState, latest, previous, dbClosed, reply, phase,
                  globalAborted, allReady, accounts, acct, reg, cacheVars, ops,
                  trace, signalled, memberRoles, opts, gw, api, members, events, restarts >>

\* MESSAGE_REACTION_ADD for message id of channel c1, received by account a:
\* the handler posts one ADD_REACTION_PLACEMENT transaction.
MessageReactionAdd(a, id) ==
  /\ Listening(a) /\ acct[a].details /\ events < MaxEvents
  /\ id \in platMsgs["c1"]
  /\ events' = events + 1
  /\ dbQueue' = Append(dbQueue, [kind |-> "placement", op |-> NoOp, ch |-> "c1",
                                 ids |-> << id >>, objs |-> << >>, react |-> TRUE])
  /\ UNCHANGED << platformVars, latest, previous, dbClosed, reply, phase,
                  globalAborted, allReady, accounts, acct, reg, cacheVars, ops,
                  trace, signalled, memberRoles, opts, gw, api, members, restarts >>

\* An active thread is archived.
ThreadArchive(t) ==
  /\ threadState[t] = "active"
  /\ threadState' = [threadState EXCEPT ![t] = "archived"]
  /\ UNCHANGED << platMsgs, reacted, nextMsg, dbVars, phase, globalAborted,
                  allReady, accounts, acct, reg, cacheVars, ops, trace,
                  signalled, memberRoles, opts, gw, api, members, events, restarts >>

\* ------------------------------------------------- signals, errors, restarts
\* SIGINT or SIGTERM: process.once("SIGINT", stop).
Signal ==
  /\ Alive /\ ~signalled
  /\ signalled' = TRUE
  /\ Commit(stop(Cur))
  /\ UNCHANGED << platformVars, dbClosed, reply, allReady, cacheVars2,
                  memberRoles, opts, gw, api, members, events, restarts >>

\* The gateway closes the connection of account a with a close code.
\* #onClose reconnects for codes below 4000 and for 4000..4009 except 4004;
\* otherwise it emits "error", and the archiver's listener rejects the
\* connectAccount promise (nobody handles the rejection) or throws.
CloseCodes == {1006, 4004}
GatewayClose(a, code) ==
  /\ Listening(a) /\ events < MaxEvents
  /\ events' = events + 1
  /\ LET reconnects == code < 4000 \/ (code >= 4000 /\ code < 4010 /\ code # 4004)
     IN phase' = IF reconnects THEN phase ELSE "crashed"
  /\ UNCHANGED << platformVars, dbVars, globalAborted, allReady, accounts, acct,
                  reg, cacheVars, ops, trace, signalled, memberRoles, opts, gw, api, members, restarts >>

\* The process is killed (SIGKILL, power loss).
Kill ==
  /\ Alive /\ restarts < MaxRestarts
  /\ phase' = "killed"
  /\ UNCHANGED << platformVars, dbVars, globalAborted, allReady, accounts, acct,
                  reg, cacheVars, ops, trace, signalled, memberRoles, opts, gw, api, members, events, restarts >>

\* The process has ended: it crashed, was killed, or stop() ran and the
\* database was closed.
Ended == phase \in {"crashed", "killed"} \/ (globalAborted /\ dbClosed)

\* The archiver is started again on the same database file.
Restart ==
  /\ Ended /\ restarts < MaxRestarts
  /\ restarts' = restarts + 1
  /\ dbQueue' = << >>
  /\ dbClosed' = FALSE
  /\ phase' = ProcInit.phase
  /\ globalAborted' = ProcInit.globalAborted
  /\ allReady' = ProcInit.allReady
  /\ accounts' = ProcInit.accounts
  /\ acct' = ProcInit.acct
  /\ reg' = ProcInit.reg
  /\ guildCached' = ProcInit.guildCached
  /\ rolePerms' = ProcInit.rolePerms
  /\ accountData' = ProcInit.accountData
  /\ chans' = ProcInit.chans
  /\ ops' = ProcInit.ops
  /\ trace' = ProcInit.trace
  /\ signalled' = ProcInit.signalled
  /\ events' = ProcInit.events
  /\ members' = MembersInit
  /\ UNCHANGED << platformVars, latest, previous, reply, memberRoles, opts, gw, api >>

\* The archiver and its environment are composed in several ways, each with
\* the part of the environment one group of properties is about.
\*
\* Spec: start-up, permission and channel dispatches, thread list syncs and
\* thread archival, with REST responses 200 and 403.
Next ==
  \/ \E a \in Accounts : Ready(a)
  \/ \E a \in Accounts, roles \in SUBSET {"r1"}, pR \in RolePermChoices :
       GuildCreate(a, roles, pR)
  \/ \E a \in Accounts, p \in RolePermChoices : GuildRoleUpdate(a, p)
  \/ \E a, b \in Accounts, roles \in SUBSET {"r1"} : GuildMemberUpdate(a, b, roles)
  \/ \E a \in Accounts : ChannelCreate(a)
  \/ \E a \in Accounts, c \in ChanIds, ow \in OverwriteChoices : ChannelUpdate(a, c, ow)
  \/ \E a \in Accounts : ThreadListSync(a)
  \/ \E o \in 1..MaxOps, status \in {200, 403} : request(o, status)
  \/ DbStep
  \/ \E t \in ThreadIds : ThreadArchive(t)

Spec == Init /\ [][Next]_vars

\* SpecStop: start-up, signals, gateway closes and REST responses 200, 401
\* and 403.
NextStop ==
  \/ \E a \in Accounts : Ready(a)
  \/ \E a \in Accounts, roles \in SUBSET {"r1"}, pR \in RolePermChoices :
       GuildCreate(a, roles, pR)
  \/ \E o \in 1..MaxOps, status \in {200, 401, 403} : request(o, status)
  \/ DbStep
  \/ \E t \in ThreadIds : ThreadArchive(t)
  \/ Signal
  \/ \E a \in Accounts, code \in CloseCodes : GatewayClose(a, code)

SpecStop == Init /\ [][NextStop]_vars

\* SpecResume: start-up, new messages, kills and restarts, with REST
\* responses 200.
NextResume ==
  \/ \E a \in Accounts : Ready(a)
  \/ \E a \in Accounts, roles \in SUBSET {"r1"}, pR \in RolePermChoices :
       GuildCreate(a, roles, pR)
  \/ \E o \in 1..MaxOps : request(o, 200)
  \/ DbStep
  \/ MessageCreate
  \/ Kill
  \/ Restart

SpecResume == Init /\ [][NextResume]_vars

\* SpecSync: start-up and new messages, with REST responses 200 and with
\* reactions on the messages.
NextSync ==
  \/ \E a \in Accounts : Ready(a)
  \/ \E a \in Accounts, roles \in SUBSET {"r1"}, pR \in RolePermChoices :
       GuildCreate(a, roles, pR)
  \/ \E o \in 1..MaxOps : request(o, 200)
  \/ DbStep
  \/ MessageCreate

SpecSync == InitReactions /\ [][NextSync]_vars

\* SpecDb: the worker's handler of the ADD_<KIND>_SNAPSHOT requests (full
\* snapshots) on its own, fed with arbitrary objects.
MaxRequests == 3
MaxReactionRequests == 4
MaxTimestamp == 2
FieldValues == {0, 1}
ObjectKinds == {"user", "guild", "role", "member", "channel", "message"}

AddSnapshotRequest(kind, obj) ==
  /\ reply.n < MaxRequests
  /\ LET r == addSnapshot(kind, latest[kind], previous[kind], obj)
     IN /\ latest' = [latest EXCEPT ![kind] = r.lat]
        /\ previous' = [previous EXCEPT ![kind] = r.prev]
        /\ reply' = [n |-> reply.n + 1, kind |-> kind, obj |-> obj, res |-> r.res]
  /\ UNCHANGED << platformVars, dbQueue, dbClosed, phase, globalAborted, allReady,
                  accounts, acct, reg, cacheVars, ops, trace, signalled, opts, gw, api, members,
                  memberRoles, events, restarts >>

NextDb ==
  \E kind \in ObjectKinds, ts \in 0..MaxTimestamp, f1, f2 \in FieldValues :
    AddSnapshotRequest(kind, Row("k", "p", ts, f1, f2))

SpecDb == Init /\ [][NextDb]_vars

\* SpecMsg: the worker's handler of the message requests on its own: full
\* adds (backfill, MESSAGE_CREATE), partial adds (MESSAGE_UPDATE) with and
\* without edited_timestamp, and MARK_MESSAGE_AS_DELETED.  A request carries
\* the message as a row (ts is edited_timestamp, 0 for null) and, when
\* partial, the set of monitored properties the payload holds.
MsgIds == {1, 2}
MsgProps == {"f1", "f2"}

\* Object.assign(oldObject, object): the properties present override.
AssignPartial(old, obj, has) ==
  [old EXCEPT !.ts = obj.ts,
              !.f1 = IF "f1" \in has THEN obj.f1 ELSE @,
              !.f2 = IF "f2" \in has THEN obj.f2 ELSE @]

\* addSnapshot with partial = true.  Without a latest row the INSERT misses
\* the named parameters a partial message never has (author__id), which is
\* answered with PARTIAL_NO_SNAPSHOT.
addSnapshotPartial(lat, prev, obj, has) ==
  IF ~HasRow(lat, obj.key)
  THEN [lat |-> lat, prev |-> prev, res |-> "PARTIAL_NO_SNAPSHOT"]
  ELSE addSnapshot("message", lat, prev,
                   AssignPartial(RowOf(lat, obj.key), obj, has))

\* JSON.stringify of a stored embeds value: a text that differs from it.
JSONStringify(v) == v + 2

\* ADD_MESSAGE_SNAPSHOT, partial and edited_timestamp == null: the embeds of
\* the latest snapshot are rewritten in place.
updateEmbeds(lat, prev, obj, has) ==
  IF ~HasRow(lat, obj.key)
  THEN [lat |-> lat, prev |-> prev, res |-> "PARTIAL_NO_SNAPSHOT"]
  ELSE LET snapshot == RowOf(lat, obj.key) IN
       IF snapshot.f2 # 0 /\ "f1" \in has
       THEN [lat |-> lat, prev |-> prev, res |-> "ERROR"]
       ELSE [lat |-> (lat \ {snapshot})
                       \cup {[snapshot EXCEPT !.f2 = JSONStringify(@)]},
             prev |-> prev, res |-> "none"]

\* case RequestType.ADD_MESSAGE_SNAPSHOT
addMessageSnapshot(lat, prev, partial, obj, has) ==
  IF partial /\ obj.ts = 0 THEN updateEmbeds(lat, prev, obj, has)
  ELSE IF partial THEN addSnapshotPartial(lat, prev, obj, has)
  ELSE addSnapshot("message", lat, prev, obj)

AddMessageSnapshot(partial, obj, has) ==
  /\ reply.n < MaxRequests
  /\ LET r == addMessageSnapshot(latest["message"], previous["message"],
                                 partial, obj, has)
     IN /\ latest' = [latest EXCEPT !["message"] = r.lat]
        /\ previous' = [previous EXCEPT !["message"] = r.prev]
        /\ reply' = [n |-> reply.n + 1, kind |-> "message", obj |-> obj,
                     res |-> r.res]
  /\ UNCHANGED << platformVars, dbQueue, dbClosed, phase, globalAborted, allReady,
                  accounts, acct, reg, cacheVars, ops, trace, signalled, opts, gw, api, members,
                  memberRoles, events, restarts >>

\* case RequestType.MARK_MESSAGE_AS_DELETED
MarkMessageAsDeleted(id, timestamp) ==
  /\ reply.n < MaxRequests
  /\ latest' = [latest EXCEPT !["message"] =
       {IF r.key = id THEN [r EXCEPT !.del = encodeTiming(timestamp, TRUE)] ELSE r
          : r \in @}]
  /\ reply' = [n |-> reply.n + 1, kind |-> "message", obj |-> Row(id, "c1", 0, 0, 0),
               res |-> IF HasRow(latest["message"], id) THEN "changed" ELSE "none"]
  /\ UNCHANGED << platformVars, dbQueue, previous, dbClosed, phase, globalAborted,
                  allReady, accounts, acct, reg, cacheVars, ops, trace, signalled,
                  opts, gw, api, members, memberRoles, events, restarts >>

NextMsg ==
  \/ \E partial \in BOOLEAN, id \in MsgIds, ts \in 0..MaxTimestamp,
        f1, f2 \in FieldValues :
       \E has \in (IF partial THEN SUBSET MsgProps ELSE {MsgProps}) :
         AddMessageSnapshot(partial, Row(id, "c1", ts, f1, f2), has)
  \/ \E id \in MsgIds, ts \in 1..MaxTimestamp : MarkMessageAsDeleted(id, ts)

SpecMsg == Init /\ [][NextMsg]_vars

\* SpecReact: the worker's handler of the reaction requests on its own.  A
\* row of the reactions table is [rowid, message_id, emoji, type, user_id,
\* start, end] (end = Null for NULL); rows are never deleted, so the rowid of
\* a new row is the number of rows plus one.  An emoji is [id, name] with
\* id = "" for null.
Null == -1
Emojis == {[id |-> "", name |-> "sparkles"], [id |-> "7", name |-> "custom"]}
ReactionUsers == {"u1", "u2"}
UserLists == {<< >>, << "u1" >>, << "u2" >>, << "u1", "u2" >>}

\* encodeEmoji: BigInt(emoji.id) when the id is set, else the name.
encodeEmoji(emoji) ==
  IF emoji.id # "" THEN [big |-> TRUE, v |-> emoji.id]
  ELSE [big |-> FALSE, v |-> emoji.name]

Matches(r, m, emoji, type, u) ==
  r.message_id = m /\ r.emoji = emoji /\ r.type = type /\ r.user_id = u
\* statements.addReactionPlacement, checkForReaction, markReactionAsRemoved,
\* markReactionsAsRemovedByMessage.
addReactionPlacement(tbl, m, emoji, type, u, start) ==
  tbl \cup {[rowid |-> Cardinality(tbl) + 1, message_id |-> m, emoji |-> emoji,
             type |-> type, user_id |-> u, start |-> start, end |-> Null]}
checkForReaction(tbl, m, emoji, type, u) ==
  \E r \in tbl : Matches(r, m, emoji, type, u) /\ r.end = Null
markReactionAsRemoved(tbl, m, emoji, type, u, end) ==
  {IF Matches(r, m, emoji, type, u) /\ r.end = Null THEN [r EXCEPT !.end = end]
   ELSE r : r \in tbl}
markReactionsAsRemovedByMessage(tbl, m, end) ==
  {IF r.message_id = m /\ r.end = Null THEN [r EXCEPT !.end = end] ELSE r : r \in tbl}

\* case RequestType.ADD_INITIAL_REACTIONS: one INSERT per listed user, with
\* start = 0.  The INSERT fails on its foreign key when the message is not
\* stored.
RECURSIVE addInitialReactions(_, _, _, _, _)
addInitialReactions(tbl, m, emoji, type, userIDs) ==
  IF userIDs = << >> THEN tbl
  ELSE addInitialReactions(
         addReactionPlacement(tbl, m, emoji, type, Head(userIDs), 0),
         m, emoji, type, Tail(userIDs))

ReactStep(tbl, res) ==
  /\ reply.n < MaxReactionRequests
  /\ latest' = [latest EXCEPT !["reaction"] = tbl]
  /\ reply' = [reply EXCEPT !.n = @ + 1, !.kind = "reaction", !.res = res]
  /\ UNCHANGED << platformVars, dbQueue, previous, dbClosed, phase, globalAborted,
                  allReady, accounts, acct, reg, cacheVars, ops, trace, signalled,
                  opts, gw, api, members, memberRoles, events, restarts >>

AddInitialReactions(m, emoji, type, userIDs) ==
  IF HasRow(latest["message"], m) \/ userIDs = << >>
  THEN ReactStep(addInitialReactions(latest["reaction"], m, encodeEmoji(emoji),
                                     type, userIDs), "none")
  ELSE ReactStep(latest["reaction"], "ERROR")

\* case RequestType.ADD_REACTION_PLACEMENT: the foreign key error is caught.
AddReactionPlacement(m, emoji, type, u, timestamp) ==
  IF ~checkForReaction(latest["reaction"], m, encodeEmoji(emoji), type, u)
     /\ HasRow(latest["message"], m)
  THEN ReactStep(addReactionPlacement(latest["reaction"], m, encodeEmoji(emoji),
                                      type, u, encodeTiming(timestamp, TRUE)),
                 "none")
  ELSE ReactStep(latest["reaction"], "none")

\* case RequestType.MARK_REACTION_AS_REMOVED
MarkReactionAsRemoved(m, emoji, type, u, timestamp) ==
  ReactStep(markReactionAsRemoved(latest["reaction"], m, encodeEmoji(emoji),
                                  type, u, encodeTiming(timestamp, TRUE)), "none")

\* case RequestType.MARK_REACTIONS_AS_REMOVED_BULK.  With an emoji the code
\* runs the by-message statement with a parameter :emoji the statement does
\* not name: the engine either rejects the extra parameter (accepted = FALSE)
\* or binds the others.
MarkReactionsAsRemovedBulk(m, withEmoji, accepted, timestamp) ==
  IF withEmoji /\ ~accepted THEN ReactStep(latest["reaction"], "ERROR")
  ELSE ReactStep(markReactionsAsRemovedByMessage(latest["reaction"], m,
                                                 encodeTiming(timestamp, TRUE)),
                 "none")

NextReact ==
  \/ \E id \in MsgIds : AddMessageSnapshot(FALSE, Row(id, "c1", 0, 0, 0), MsgProps)
  \/ \E m \in MsgIds, emoji \in Emojis, type \in {0, 1}, userIDs \in UserLists :
       AddInitialReactions(m, emoji, type, userIDs)
  \/ \E m \in MsgIds, emoji \in Emojis, type \in {0, 1}, u \in ReactionUsers,
        timestamp \in 1..MaxTimestamp :
       AddReactionPlacement(m, emoji, type, u, timestamp)
  \/ \E m \in MsgIds, emoji \in Emojis, type \in {0, 1}, u \in ReactionUsers,
        timestamp \in 1..MaxTimestamp :
       MarkReactionAsRemoved(m, emoji, type, u, timestamp)
  \/ \E m \in MsgIds, withEmoji, accepted \in BOOLEAN, timestamp \in 1..MaxTimestamp :
       MarkReactionsAsRemovedBulk(m, withEmoji, accepted, timestamp)

SpecReact == Init /\ [][NextReact]_vars

\* ---------------------------------------------- steps of the gateway connection
\* Every handler starts with nothing emitted or sent.  The sends of
\* #sendPayload happen in a microtask of the handler that made them, the
\* limiter being free.
Begin(g) == [g EXCEPT !.out = << >>, !.fault = FALSE]
GwStep(g) == gw' = g /\ UNCHANGED << archiverVars, api >>
onPayload(g, handled) == IF g.state = "DESTROYED" THEN g ELSE handled

\* The task of process.nextTick or of the 1 s timer of #onClose.
TimerConnect ==
  /\ gw.pending > 0
  /\ GwStep(connect([Begin(gw) EXCEPT !.pending = @ - 1]))

\* #connect continues after its await and opens a transport.
ConnectOpen ==
  /\ gw.connecting > 0
  /\ gw.made < MaxTransports
  /\ GwStep(connectOpen(Begin(gw)))

Hello(w) ==
  /\ w \in gw.open /\ gw.srv[w] = "connected"
  /\ LET g == [Begin(gw) EXCEPT !.srv[w] = "hello"]
     IN GwStep(onPayload(g, onHello(g)))

\* READY after IDENTIFY; replayed events, then RESUMED, after RESUME; events
\* of the running session.
Dispatch(w, t, sid, s) ==
  /\ w \in gw.open
  /\ \/ t = "READY" /\ gw.srv[w] = "identified"
     \/ t = "RESUMED" /\ gw.srv[w] = "replaying"
     \/ t = "EVENT" /\ gw.srv[w] \in {"replaying", "live"}
  /\ LET g == [Begin(gw) EXCEPT !.srv[w] = IF t = "EVENT" THEN @ ELSE "live"]
     IN GwStep(onPayload(g, onDispatch(g, t, sid, s)))

HeartbeatRequest(w) ==
  /\ w \in gw.open /\ gw.srv[w] \in {"identified", "replaying", "live"}
  /\ GwStep(onPayload(Begin(gw), sendHeartbeat(Begin(gw))))

HeartbeatAck(w) ==
  /\ w \in gw.open /\ w \in gw.ackDue
  /\ LET g == [Begin(gw) EXCEPT !.ackDue = @ \ {w}]
     IN GwStep(onPayload(g, [g EXCEPT !.acked = TRUE, !.beat = "acked"]))

InvalidSession(w, d) ==
  /\ w \in gw.open /\ gw.srv[w] \in {"identified", "replaying", "live"}
  /\ LET g == [Begin(gw) EXCEPT !.srv[w] = "hello"]
     IN GwStep(onPayload(g, onInvalidSession(g, d)))

Reconnect(w) ==
  /\ w \in gw.open /\ gw.srv[w] \in {"identified", "replaying", "live"}
  /\ GwStep(onPayload(Begin(gw), reconnect(Begin(gw))))

\* A message that cannot be decoded: the listener of lines 150-156.
DecodingError(w) ==
  /\ w \in gw.open /\ gw.srv[w] # "connected"
  /\ GwStep(reconnect(emit(Begin(gw), "decodingError")))

\* The server or the network closes transport w.
ServerClose(w, code) ==
  /\ w \in gw.open
  /\ GwStep(closeListener([Begin(gw) EXCEPT !.open = @ \ {w},
                                            !.ackDue = @ \ {w}], w, code))

\* The close event of a transport this end closed.
LateClose(w, code) ==
  /\ w \in gw.closing
  /\ GwStep(closeListener([Begin(gw) EXCEPT !.closing = @ \ {w},
                                            !.ackDue = @ \ {w}], w, code))

HeartbeatTimer ==
  /\ gw.hbTimer
  /\ GwStep(heartbeatHandler(Begin(gw)))

\* The public sendPayload, called by the owner of the connection.
SendPayload ==
  /\ gw.made > 0 /\ Len(gw.waiting) < MaxWaiting
  /\ GwStep(IF gw.state # "READY" \/ gw.ws = 0
            THEN emit(Begin(gw), "rejected")
            ELSE sendPayloadNow(Begin(gw), "REQUEST", 0, 0))

Destroy ==
  /\ gw.made > 0 \/ gw.connecting > 0
  /\ GwStep(destroy(Begin(gw)))

GwCloseCodes == {1000, 1006, 4000, 4004, 4009, 4010, 4014}

NextGw ==
  \/ TimerConnect
  \/ ConnectOpen
  \/ \E w \in Transports : Hello(w)
  \/ \E w \in Transports, t \in {"READY", "RESUMED", "EVENT"},
        sid \in 1..MaxSessions, s \in 1..MaxSeq : Dispatch(w, t, sid, s)
  \/ \E w \in Transports : HeartbeatRequest(w)
  \/ \E w \in Transports : HeartbeatAck(w)
  \/ \E w \in Transports, d \in BOOLEAN : InvalidSession(w, d)
  \/ \E w \in Transports : Reconnect(w)
  \/ \E w \in Transports : DecodingError(w)
  \/ \E w \in Transports, code \in GwCloseCodes : ServerClose(w, code)
  \/ \E w \in Transports, code \in {1000, 4000} : LateClose(w, code)
  \/ HeartbeatTimer
  \/ SendPayload
  \/ Destroy

\* The connection may have been built with reidentify: false.
InitGw ==
  \E re \in BOOLEAN :
    InitOpts({}, [noSync |-> FALSE, noReactions |-> FALSE], GwInit(re))
SpecGw == InitGw /\ [][NextGw]_vars

\* SpecGwFaulty: a server that breaks the protocol: it repeats HELLO on a
\* transport and dispatches an event before READY.
HelloAgain(w) ==
  /\ w \in gw.open /\ gw.srv[w] # "connected"
  /\ GwStep(onPayload(Begin(gw), onHello(Begin(gw))))

EarlyDispatch(w, s) ==
  /\ w \in gw.open /\ gw.srv[w] = "identified"
  /\ GwStep(onPayload(Begin(gw), onDispatch(Begin(gw), "EVENT", 0, s)))

NextGwFaulty ==
  \/ TimerConnect
  \/ ConnectOpen
  \/ \E w \in Transports : Hello(w)
  \/ \E w \in Transports, t \in {"READY", "RESUMED", "EVENT"},
        sid \in 1..MaxSessions, s \in 1..MaxSeq : Dispatch(w, t, sid, s)
  \/ \E w \in Transports : HelloAgain(w)
  \/ \E w \in Transports, s \in 1..MaxSeq : EarlyDispatch(w, s)
  \/ \E w \in Transports : HeartbeatAck(w)
  \/ \E w \in Transports, d \in BOOLEAN : InvalidSession(w, d)
  \/ \E w \in Transports, code \in {1000, 4000} : LateClose(w, code)
  \/ HeartbeatTimer
SpecGwFaulty == InitGw /\ [][NextGwFaulty]_vars

\* SpecGwLimited: the owner of the connection can use up the permits of the
\* send limiter (120 per 60 s); the sends made after that wait for a permit.
\* The owner calls sendPayload as often as the limiter has permits, in one
\* task (the member requests of the all-ready pass, one per guild).
SendBurst ==
  /\ gw.state = "READY" /\ gw.ws # 0 /\ gw.lim = "free"
  /\ GwStep([wsSend(Begin(gw), "REQUEST", 0, 0) EXCEPT !.lim = "full"])

\* A permit ages out: the oldest suspended #sendPayload resumes.
WhenFree ==
  /\ gw.waiting # << >>
  /\ LET p == Head(gw.waiting)
     IN GwStep(wsSend([Begin(gw) EXCEPT !.waiting = Tail(@)], p.op, p.sid, p.seq))

\* The window of the limiter has passed with nothing waiting.
WindowElapsed ==
  /\ gw.lim = "full" /\ gw.waiting = << >>
  /\ GwStep([Begin(gw) EXCEPT !.lim = "free"])

NextGwLimited ==
  \/ TimerConnect
  \/ ConnectOpen
  \/ \E w \in Transports : Hello(w)
  \/ \E w \in Transports, t \in {"READY", "RESUMED", "EVENT"},
        sid \in 1..MaxSessions, s \in 1..MaxSeq : Dispatch(w, t, sid, s)
  \/ \E w \in Transports : HeartbeatAck(w)
  \/ \E w \in Transports : Reconnect(w)
  \/ \E w \in Transports, code \in {1006, 4004} : ServerClose(w, code)
  \/ \E w \in Transports, code \in {1000, 4000} : LateClose(w, code)
  \/ HeartbeatTimer
  \/ SendPayload
  \/ SendBurst
  \/ WhenFree
  \/ WindowElapsed
  \/ Destroy
SpecGwLimited == InitGw /\ [][NextGwLimited]_vars

\* ----------------------------------------------------------- steps of apiReq
ApiStep(p) == api' = p /\ UNCHANGED << archiverVars, gw >>

ApiCall(abortIfFail) ==
  /\ api.pc \in {"idle", "returned", "thrown"}
  /\ ApiStep([ApiInit EXCEPT !.pc = "fetch", !.abortIfFail = abortIfFail])

\* fetch resolves; aborted: the caller's signal fired while it did.
ApiResponse(status, aborted) ==
  /\ api.pc = "fetch"
  /\ IsFailure(status) => api.failures < MaxFailures
  /\ ApiStep(onResponse(api, status, aborted))

\* fetch rejects with a TypeError.
ApiNetworkError(aborted) ==
  /\ api.pc = "fetch"
  /\ api.failures < MaxFailures
  /\ ApiStep(retry(api, 0, aborted))

\* The caller's signal fires: fetch or timeout rejects with the abort error.
ApiAbort ==
  /\ api.pc \in {"fetch", "wait"}
  /\ ApiStep([api EXCEPT !.pc = "thrown", !.aborted = TRUE])

\* The timeout of line 424 expires.
ApiWaitDone ==
  /\ api.pc = "wait"
  /\ ApiStep([api EXCEPT !.pc = "fetch",
                         !.interval = nextInterval(api.interval)])

NextApi ==
  \/ \E abortIfFail \in BOOLEAN : ApiCall(abortIfFail)
  \/ \E status \in ApiStatuses, aborted \in BOOLEAN : ApiResponse(status, aborted)
  \/ \E aborted \in BOOLEAN : ApiNetworkError(aborted)
  \/ ApiAbort
  \/ ApiWaitDone
SpecApi == Init /\ [][NextApi]_vars

\* SpecReactions: the steps of SpecSync and realtime reaction dispatches,
\* with --no-reactions given or not.
InitReactionOption ==
  \E r \in {S \in SUBSET (1..InitMsgs) : Cardinality(S) <= 1}, nr \in BOOLEAN :
    InitOpts(r, [noSync |-> FALSE, noReactions |-> nr], GwInit(TRUE))
NextReactions ==
  \/ \E a \in Accounts : Ready(a)
  \/ \E a \in Accounts, roles \in SUBSET {"r1"}, pR \in RolePermChoices :
       GuildCreate(a, roles, pR)
  \/ \E o \in 1..MaxOps : request(o, 200)
  \/ DbStep
  \/ \E a \in Accounts, id \in 1..InitMsgs : MessageReactionAdd(a, id)
SpecReactions == InitReactionOption /\ [][NextReactions]_vars

\* ------------------------------------------------------ member requests
\* The "sessionLost" listener of the account's connection: the member
\* requests under way are forgotten and the member set of their guild is
\* set to null.  The platform drops the chunks of the lost session.
SessionLost(a) ==
  /\ Listening(a) /\ acct[a].details /\ ~members.lost[a]
  /\ events < MaxEvents
  /\ events' = events + 1
  /\ acct' = [acct EXCEPT ![a].gwOps = @ - Cardinality(acct[a].memberReqs),
                          ![a].memberReqs = {}]
  /\ members' = [members EXCEPT
                   !.isNull = @ \/ ("g" \in acct[a].memberReqs /\ guildCached),
                   !.interrupted = @ \/ "g" \in acct[a].memberReqs,
                   !.sent[a] = 0,
                   !.lost[a] = TRUE]
  /\ UNCHANGED << platformVars, dbVars, cacheVars, phase, globalAborted,
                  allReady, accounts, reg, ops, trace, signalled, memberRoles,
                  opts, gw, api, restarts >>

\* READY after the connection has identified again.
ReadyAgain(a) ==
  /\ Listening(a) /\ members.lost[a]
  /\ acct' = [acct EXCEPT ![a].details = TRUE, ![a].guildsLeft = 1]
  /\ members' = [members EXCEPT !.lost[a] = FALSE]
  /\ UNCHANGED << platformVars, dbVars, cacheVars, phase, globalAborted,
                  allReady, accounts, reg, ops, trace, signalled, memberRoles,
                  opts, gw, api, events, restarts >>

\* The snapshots of the users and members of one chunk.
RECURSIVE MemberObjs(_)
MemberObjs(us) ==
  IF us = << >> THEN << >>
  ELSE << <<"user", Head(us)>>, <<"member", Head(us)>> >> \o MemberObjs(Tail(us))

\* cachedGuild.memberUserIDs!.add(...) for every member of the chunk: a
\* TypeError when the set is null and the chunk has a member.
AddMemberIDs(mb, us) ==
  IF us = << >> THEN [mb |-> mb, threw |-> FALSE]
  ELSE IF mb.isNull THEN [mb |-> mb, threw |-> TRUE]
  ELSE [mb |-> [mb EXCEPT !.ids = @ \cup {us[k] : k \in DOMAIN us}], threw |-> FALSE]

\* SYNC_GUILD_MEMBERS with userIDs: cachedGuild.memberUserIDs.
SyncGuildMembers(M, mb) ==
  IF CloseRequested(M) THEN mb ELSE [mb EXCEPT !.synced = Append(@, mb.ids)]

\* GUILD_MEMBERS_CHUNK number k of the account's request, the last one when
\* k = NChunks.
GuildMembersChunk(a) ==
  /\ Listening(a) /\ ~members.lost[a] /\ guildCached
  /\ "g" \in acct[a].memberReqs
  /\ members.sent[a] < NChunks
  /\ LET k == members.sent[a] + 1
         isLast == k = NChunks
         M == PostObjs(Cur, MemberObjs(ChunkMembers(k)))
         r == AddMemberIDs([members EXCEPT !.sent[a] = IF isLast THEN 0 ELSE k],
                           ChunkMembers(k))
     IN /\ members' = IF r.threw THEN r.mb
                      ELSE IF isLast THEN SyncGuildMembers(M, r.mb)
                      ELSE r.mb
        /\ Commit(IF r.threw THEN [M EXCEPT !.crash = TRUE]
                  ELSE IF isLast
                  THEN [M EXCEPT !.acct[a].memberReqs = @ \ {"g"},
                                 !.acct[a].gwOps = @ - 1]
                  ELSE M)
  /\ UNCHANGED << platformVars, dbClosed, reply, allReady, cacheVars2, signalled,
                  memberRoles, opts, gw, api, events, restarts >>

\* SpecMembers: start-up, member requests and their chunks, lost sessions.
NextMembers ==
  \/ \E a \in Accounts : Ready(a)
  \/ \E a \in Accounts, roles \in SUBSET {"r1"}, pR \in RolePermChoices :
       GuildCreate(a, roles, pR)
  \/ \E a \in Accounts : SessionLost(a)
  \/ \E a \in Accounts : ReadyAgain(a)
  \/ \E a \in Accounts : GuildMembersChunk(a)
SpecMembers == Init /\ [][NextMembers]_vars

\* SpecPrivate: the thread of the guild is an archived private thread;
\* start-up, role and member updates, REST responses 200.
InitPrivate ==
  InitThreads({}, [noSync |-> FALSE, noReactions |-> FALSE], GwInit(TRUE),
              [t \in ThreadIds |-> "private"])
NextPrivate ==
  \/ \E a \in Accounts : Ready(a)
  \/ \E a \in Accounts, roles \in SUBSET {"r1"}, pR \in RolePermChoices :
       GuildCreate(a, roles, pR)
  \/ \E a \in Accounts, p \in RolePermChoices : GuildRoleUpdate(a, p)
  \/ \E a, b \in Accounts, roles \in SUBSET {"r1"} : GuildMemberUpdate(a, b, roles)
  \/ \E o \in 1..MaxOps : request(o, 200)
  \/ DbStep
SpecPrivate == InitPrivate /\ [][NextPrivate]_vars

\* SpecReady: start-up with READY events that list one guild or none, and
\* the backfill that follows, with REST responses 200.
NextReady ==
  \/ \E a \in Accounts : Ready(a)
  \/ \E a \in Accounts : ReadyNoGuilds(a)
  \/ \E a \in Accounts, roles \in SUBSET {"r1"}, pR \in RolePermChoices :
       GuildCreate(a, roles, pR)
  \/ \E o \in 1..MaxOps : request(o, 200)
  \/ DbStep
SpecReady == Init /\ [][NextReady]_vars

\* SpecHang: start-up and backfill with reactions, REST responses 200, 403
\* and 404, thread archival and the stop signal.
NextHang ==
  \/ \E a \in Accounts : Ready(a)
  \/ \E a \in Accounts, roles \in SUBSET {"r1"}, pR \in RolePermChoices :
       GuildCreate(a, roles, pR)
  \/ \E o \in 1..MaxOps, status \in {200, 403, 404} : request(o, status)
  \/ DbStep
  \/ \E t \in ThreadIds : ThreadArchive(t)
  \/ Signal
SpecHang == InitReactions /\ [][NextHang]_vars

\* SpecOptions: the steps of Spec, with --no-sync given or not.
InitOptions ==
  \E ns \in BOOLEAN :
    InitOpts({}, [noSync |-> ns, noReactions |-> FALSE], GwInit(TRUE))
SpecOptions == InitOptions /\ [][Next]_vars

\* ------------------------------------------------------------------ claims
\* A message sync that has registered itself and not yet unregistered.
RunningSync(o) == ops[o].kind = "msg" /\ ops[o].pc # "done"
RunningList(o) == ops[o].kind = "list" /\ ops[o].pc # "done"

\* C1: across all accounts, at most one running message sync exists for a
\* (parent channel, channel-or-thread id) pair.
C1_AtMostOneSyncPerTarget ==
  \A o1, o2 \in DOMAIN ops :
    (o1 # o2 /\ RunningSync(o1) /\ RunningSync(o2))
      => <<ops[o1].parent, ops[o1].ch>> # <<ops[o2].parent, ops[o2].ch>>

\* C2: the ADD_MESSAGE_SNAPSHOT requests one run of syncMessages issues have
\* strictly ascending message ids, inside a page and across pages.
C2_AscendingWrites ==
  \A o \in DOMAIN ops :
    \A j, k \in DOMAIN ops[o].wrote : j < k => ops[o].wrote[j] < ops[o].wrote[k]

\* A sync wrote a reaction transaction and batches from two pages.
C2_Witness ==
  \E o \in DOMAIN ops :
    /\ Len(ops[o].wrote) > PageLimit
    /\ \E k \in DOMAIN ops[o].wrote : ops[o].wrote[k] \in reacted

\* The ids of the messages of channel ch that are in the store.
StoredIds(ch) == {r.key : r \in {x \in latest["message"] : x.ch = ch}}
Quiescent ==
  /\ phase = "run" /\ allReady /\ dbQueue = << >>
  /\ \A o \in DOMAIN ops : ops[o].pc = "done"

\* C3: after a restart, once the restarted backfill of c1 has ended, every
\* message of c1 that exists on the platform is in the store: there is no
\* gap below the largest stored id.
C3_ResumeLeavesNoGap ==
  (/\ restarts > 0
   /\ Quiescent
   /\ 1 \in StoredIds("c1")
   /\ \E o \in DOMAIN ops : ops[o].kind = "msg" /\ ops[o].ch = "c1")
    => platMsgs["c1"] \subseteq StoredIds("c1")

\* What the permission computation yields for account b on channel c with
\* the cached role permissions and overwrites and the member roles the
\* gateway reported for b.
ReadsByPayloads(b, c) ==
  hasChannelPermissions(
    computeChannelPermissions(b, FALSE, rolePerms, chans[c].ow, memberRoles[b]),
    {"READ"})

\* C4: when a permission change aborts account A's sync of channel c because
\* A lost read permission while another account B that received the guild
\* keeps it, a sync of c is started on B in the same step.
C4_HandoffStartsOnOtherAccount ==
  [][\A o \in DOMAIN ops : \A b \in Accounts :
       (/\ ops[o].kind = "msg" /\ ~ops[o].isThread
        /\ ~ops[o].aborted /\ ops'[o].aborted
        /\ b # ops[o].acct /\ acct[b].gotGuild /\ allReady
        /\ ReadsByPayloads(b, ops[o].ch) /\ ReadsByPayloads(b, ops[o].ch)')
         => \E o2 \in DOMAIN ops' :
              /\ o2 \notin DOMAIN ops
              /\ ops'[o2].acct = b /\ ops'[o2].ch = ops[o].ch]_vars

\* What the permission computation yields for account a on channel c with
\* the cached roles, role permissions and overwrites.
ReadsByCache(a, c) ==
  hasChannelPermissions(
    computeChannelPermissions(a, FALSE, rolePerms, chans[c].ow,
                              accountData.roles[a]), {"READ"})

\* C5: for every account that received the guild and every cached channel,
\* the account is in accountsWithReadPermission iff the permission
\* computation over the cache grants VIEW and READ_HISTORY.
C5_ReadSetMatchesComputation ==
  \A a \in Accounts : \A c \in ChanIds :
    (acct[a].gotGuild /\ chans[c].cached /\ SetHas(accountData.keys, a))
      => (SetHas(chans[c].read, a) <=> ReadsByCache(a, c))

\* Operation o is reachable from a registry of its account under its own key.
Reachable(O, R, o) ==
  IF O[o].kind = "msg"
  THEN LET m == R[O[o].acct][OpRegKind(O[o])][O[o].parent]
       IN m # NoOp /\ O[m].inner[O[o].ch] = o
  ELSE R[O[o].acct][O[o].ltype][O[o].ch] = o

\* C6: every operation that is still running is reachable from a registry of
\* its own account under its own key.
C6_RunningOpsAreRegistered ==
  \A o \in DOMAIN ops : ops[o].pc # "done" => Reachable(ops, reg, o)

\* An aborted operation that has not returned waits for nothing that will not
\* come: it does not hang in waitForAbort, and when it awaits a reply of the
\* worker the request is in the worker's queue.
Awaited(q, o) == \E k \in DOMAIN q : q[k].op = o /\ q[k].kind \in {"getLast", "msgs"}
Unblocked(O, q, o) ==
  /\ O[o].pc # "hang"
  /\ O[o].pc \in {"getLast", "dbwait"} => Awaited(q, o)

RECURSIVE StopTrace(_)
StopTrace(as) ==
  IF as = << >> THEN << >>
  ELSE << [e |-> "destroy", a |-> Head(as)], [e |-> "abortOps", a |-> Head(as)],
          [e |-> "delete", a |-> Head(as)] >> \o StopTrace(Tail(as))

AuthFailure(a) ==
  \/ GatewayClose(a, 4004)
  \/ \E o \in DOMAIN ops : ops[o].acct = a /\ request(o, 401)

\* C9: when an authentication failure is observed for an account (REST 401
\* or gateway close 4004) its gateway is destroyed, its registered operations
\* are aborted and it leaves the account set; if the set is then empty,
\* stop() is performed.
C9_AuthFailureDisconnects ==
  [][\A a \in Accounts :
       AuthFailure(a) =>
         /\ acct'[a].gwDestroyed
         /\ ~SetHas(accounts', a)
         /\ \A o \in RegisteredOps(ops, reg, a) : ops'[o].aborted
         /\ accounts' = << >> => globalAborted']_vars

\* C10: a full snapshot add inserts the object when there is no latest row
\* (first snapshot), writes nothing when the monitored fields equal the
\* latest row (same as latest), and otherwise appends the former latest row
\* to the previous table and updates the latest row (another snapshot).
AsRow(obj) == Row(obj.key, obj.ch, obj.ts, obj.f1, obj.f2)
C10_FullSnapshotAdd ==
  [][reply'.n = reply.n + 1 =>
       LET k == reply'.kind
           obj == reply'.obj
           row == RowOf(latest[k], obj.key)
       IN IF ~HasRow(latest[k], obj.key)
          THEN /\ reply'.res = "FIRST"
               /\ latest'[k] = latest[k] \cup {AsRow(obj)}
               /\ previous'[k] = previous[k]
          ELSE IF row.f1 = obj.f1 /\ row.f2 = obj.f2
          THEN /\ reply'.res = "SAME"
               /\ latest'[k] = latest[k] /\ previous'[k] = previous[k]
          ELSE obj.ts > row.ts =>
               /\ reply'.res = "ANOTHER"
               /\ previous'[k] = previous[k] \cup {row}
               /\ latest'[k] = (latest[k] \ {row}) \cup {AsRow(obj)}]_vars

\* C11: after any sequence of message requests every stored message id has
\* exactly one row in the latest table, and that row's timestamp is not
\* smaller than the timestamp of any previous row of the same id.
LatestRows(id) == {r \in latest["message"] : r.key = id}
C11_OneLatestNotOlder ==
  \A id \in MsgIds :
    /\ Cardinality(LatestRows(id)) <= 1
    /\ \A p \in previous["message"] :
         p.key = id => /\ Cardinality(LatestRows(id)) = 1
                       /\ \A l \in LatestRows(id) : l.ts >= p.ts

\* A message with a previous snapshot was marked as deleted.
C11_Witness ==
  \E p \in previous["message"] : \E l \in LatestRows(p.key) : l.del # 0

\* C12: a snapshot add whose monitored fields differ from the latest row and
\* whose timestamp is not greater than the stored one fails with an error and
\* leaves the latest table and the previous table unchanged.
C12_StaleAddFails ==
  [][reply'.n = reply.n + 1 =>
       LET k == reply'.kind
           obj == reply'.obj
       IN (/\ HasRow(latest[k], obj.key)
           /\ ~isLatestSnapshotEqual(RowOf(latest[k], obj.key), obj)
           /\ obj.ts <= RowOf(latest[k], obj.key).ts)
            => /\ reply'.res = "ERROR"
               /\ latest' = latest
               /\ previous' = previous]_vars

\* A differing snapshot that is not newer was answered with the error.
C12_Witness ==
  /\ reply.res = "ERROR"
  /\ previous[reply.kind] # {}


\* Payloads the last handler put on a transport.
SentOps == {"IDENTIFY", "RESUME", "HEARTBEAT", "REQUEST"}
GwSent(g, op) == \E k \in 1..Len(g.out) : g.out[k].e = op
GwEmitted(g, e) == \E k \in 1..Len(g.out) : g.out[k].e = e

\* C13: once destroy() has been called, the connection stays DESTROYED, no
\* transport is opened or left open, no heartbeat timer is armed and no
\* payload is sent, whatever timer, suspended connect or close event is still
\* to come; a second destroy() changes nothing.
C13_DestroyIsFinal ==
  [][gw.destroyed =>
       /\ gw'.state = "DESTROYED"
       /\ gw'.ws = 0 /\ gw'.open = {} /\ gw'.made = gw.made
       /\ ~gw'.hbTimer
       /\ \A op \in SentOps : ~GwSent(gw', op)
       /\ Destroy => Begin(gw') = Begin(gw)]_vars

\* C14: when the current transport of a connection that is not destroyed
\* closes with code c, then for c < 4000 and for 4000 <= c < 4010 except 4004
\* the heartbeat timer is stopped, connectionLost is emitted and one connect
\* is scheduled (and the timer, when it fires, makes one connect); for every
\* other code "error" is emitted and nothing is scheduled; the close event of
\* a transport this end closed triggers neither.
C14_CloseCodes ==
  [][/\ \A w \in Transports, c \in GwCloseCodes :
          (ServerClose(w, c) /\ w = gw.ws /\ gw.state # "DESTROYED") =>
            IF c < 4000 \/ (4000 <= c /\ c < 4010 /\ c # 4004)
            THEN /\ ~gw'.hbTimer
                 /\ GwEmitted(gw', "connectionLost") /\ ~GwEmitted(gw', "error")
                 /\ gw'.pending = gw.pending + 1
                 /\ gw'.connecting = gw.connecting
            ELSE /\ GwEmitted(gw', "error") /\ ~GwEmitted(gw', "connectionLost")
                 /\ gw'.pending = gw.pending
                 /\ gw'.connecting = gw.connecting
     /\ TimerConnect => /\ gw'.pending = gw.pending - 1
                        /\ gw'.connecting = gw.connecting + 1
     /\ \A w \in Transports, c \in {1000, 4000} :
          LateClose(w, c) =>
            /\ ~GwEmitted(gw', "connectionLost") /\ ~GwEmitted(gw', "error")
            /\ gw'.pending = gw.pending
            /\ gw'.connecting = gw.connecting]_vars
\* The transport of a ready connection was closed and the reconnect is scheduled.
C14_Witness ==
  /\ GwEmitted(gw, "connectionLost") /\ gw.rs.defined
  /\ gw.pending = 1 /\ ~gw.destroyed

\* C15: in every session, started by IDENTIFY or by RESUME, the first
\* dispatch received after the handshake moves the connection from
\* IDENTIFYING to READY, so that sendPayload is no longer rejected.
C15_FirstDispatchReady ==
  [][\A w \in Transports, t \in {"READY", "RESUMED", "EVENT"},
        sid \in 1..MaxSessions, s \in 1..MaxSeq :
        (Dispatch(w, t, sid, s) /\ w = gw.ws /\ gw.state = "IDENTIFYING") =>
          gw'.state = "READY"]_vars

\* The live flag of the dispatch the last handler emitted.
EmittedLive(g, live) ==
  \E k \in 1..Len(g.out) : g.out[k].e = "dispatch" /\ g.out[k].live = live

\* C16: a dispatch of a session started by IDENTIFY is emitted with
\* live = true; after a RESUME a dispatch is emitted with live = false while
\* the server replays missed events (before RESUMED), and with live = true
\* once the replay has ended.
C16_LiveFlag ==
  [][\A w \in Transports, t \in {"READY", "RESUMED", "EVENT"},
        sid \in 1..MaxSessions, s \in 1..MaxSeq :
        (Dispatch(w, t, sid, s) /\ w = gw.ws /\ gw.state # "DESTROYED") =>
          /\ gw.srv[w] \in {"identified", "live"} => EmittedLive(gw', TRUE)
          /\ (gw.srv[w] = "replaying" /\ t = "EVENT") => EmittedLive(gw', FALSE)]_vars

\* The last handler emitted event e and later sent payload op.
EmittedThenSent(g, e, op) ==
  \E j, k \in 1..Len(g.out) : j < k /\ g.out[j].e = e /\ g.out[k].e = op

\* C17: INVALID_SESSION with d = false clears the saved resume state and
\* emits sessionLost; then IDENTIFY, and no RESUME, is sent if reidentify is
\* set, and the connection is destroyed if it is not.  INVALID_SESSION with
\* d = true keeps a saved resume state and sends RESUME with the saved session
\* id and the last sequence number received.
C17_InvalidSession ==
  [][\A w \in Transports, d \in BOOLEAN :
        (InvalidSession(w, d) /\ w = gw.ws /\ gw.state # "DESTROYED") =>
          IF ~d
          THEN /\ ~gw'.rs.defined
               /\ GwEmitted(gw', "sessionLost")
               /\ ~GwSent(gw', "RESUME")
               /\ IF gw.reidentify
                  THEN /\ EmittedThenSent(gw', "sessionLost", "IDENTIFY")
                       /\ gw'.state = "IDENTIFYING" /\ gw'.ws = w
                  ELSE /\ ~GwSent(gw', "IDENTIFY")
                       /\ gw'.state = "DESTROYED" /\ gw'.ws = 0
                       /\ w \notin gw'.open /\ ~gw'.hbTimer
          ELSE gw.rs.defined =>
                 /\ gw'.rs = gw.rs
                 /\ ~GwSent(gw', "IDENTIFY") /\ ~GwEmitted(gw', "sessionLost")
                 /\ \E k \in 1..Len(gw'.out) :
                      /\ gw'.out[k].e = "RESUME"
                      /\ gw'.out[k].sid = gw.rs.sessionID
                      /\ gw'.out[k].seq = gw.rs.seq]_vars
\* A session was lost and the connection identified again on the same transport.
C17_Witness ==
  /\ EmittedThenSent(gw, "sessionLost", "IDENTIFY")
  /\ gw.ws # 0 /\ gw.srv[gw.ws] = "identified" /\ ~gw.rs.defined

\* C18: at an expiry of the heartbeat timer a HEARTBEAT is sent only if a
\* HEARTBEAT_ACK arrived since the heartbeat the timer sent before (or none
\* was sent on this transport yet); otherwise nothing is sent, the transport
\* is closed and a new connect is started with the resume state untouched,
\* and the handshake on the new transport sends RESUME with that state.
C18_Heartbeat ==
  [][/\ HeartbeatTimer =>
          /\ GwSent(gw', "HEARTBEAT") => gw.beat # "sent"
          /\ gw.beat = "sent" =>
               /\ gw'.out = << Out("connecting", 0, 0, 0, gw.live) >>
               /\ gw.ws \notin gw'.open /\ gw'.ws = 0 /\ ~gw'.hbTimer
               /\ gw'.connecting = gw.connecting + 1
               /\ gw'.rs = gw.rs
          /\ gw.beat # "sent" =>
               /\ GwSent(gw', "HEARTBEAT")
               /\ gw'.ws = gw.ws /\ gw'.open = gw.open /\ gw'.hbTimer
     /\ \A w \in Transports :
          (Hello(w) /\ w = gw.ws /\ gw.state # "DESTROYED" /\ gw.rs.defined) =>
            \E k \in 1..Len(gw'.out) :
              /\ gw'.out[k].e = "RESUME"
              /\ gw'.out[k].sid = gw.rs.sessionID
              /\ gw'.out[k].seq = gw.rs.seq]_vars
\* A connect is under way with a saved session while the last heartbeat sent
\* has no acknowledgement.
C18_Witness ==
  /\ gw.beat = "sent" /\ gw.ws = 0 /\ gw.connecting = 1 /\ gw.rs.defined
  /\ gw.out = << Out("connecting", 0, 0, 0, gw.live) >>
  /\ gw.ackDue # {} /\ ~gw.destroyed

\* C19: the wait before the k-th retry of apiReq, after k consecutive failed
\* attempts (429, 5xx or a network error), is min(2000 * (k - 1), 60000)
\* milliseconds.
C19_LinearBackoff ==
  api.pc = "wait" => api.wait = Min(2000 * (api.failures - 1), 60000)

\* C20: with --no-sync no backfill is ever started: no message sync and no
\* enumeration of archived threads is registered and no guild members are
\* requested, whatever dispatches arrive.
C20_NoSyncNoBackfill ==
  opts.noSync =>
    /\ ops = << >>
    /\ \A a \in Accounts : acct[a].memberReqs = {}

\* C21: with --no-reactions nothing about who reacted is archived: no
\* reaction user list is requested and the reactions table stays empty,
\* whatever pages the backfill reads and whatever reaction dispatches arrive.
C21_NoReactionsArchived ==
  opts.noReactions =>
    /\ latest["reaction"] = {}
    /\ \A o \in DOMAIN ops : ops[o].pc # "rlimiter"

\* C22: after any sequence of reaction requests the reactions table holds
\* at most one open row (end unset) per message, emoji, reaction type and
\* user: an initial-reactions load that lists a user whose placement is open
\* adds no second row.
C22_OneOpenRow ==
  \A r1, r2 \in latest["reaction"] :
    (/\ r1.end = Null /\ r2.end = Null
     /\ Matches(r1, r2.message_id, r2.emoji, r2.type, r2.user_id)) => r1 = r2

\* C23: when a session is lost while a member request for the guild is in
\* flight, the chunks of the request issued after the account has
\* identified again are processed without error, and the last chunk writes
\* a SYNC_GUILD_MEMBERS request that lists every member of the guild.
C23_MemberResync ==
  [][\A a \in Accounts :
       (members.interrupted /\ GuildMembersChunk(a)) =>
         /\ phase' = "run"
         /\ members.sent[a] + 1 = NChunks =>
              /\ Len(members'.synced) = Len(members.synced) + 1
              /\ members'.synced[Len(members'.synced)] = MemberIds]_vars

\* C24: every GUILD_CREATE, also one for a guild another account has cached
\* already, leaves the receiving account with a per-account record of the
\* guild (its roles) and with its membership of every cached channel's read
\* set brought in line with the permission computation.
C24_GuildCreateRecordsAccount ==
  [][\A a \in Accounts, roles \in SUBSET {"r1"}, pR \in RolePermChoices :
       GuildCreate(a, roles, pR) =>
         /\ SetHas(accountData'.keys, a)
         /\ accountData'.roles[a] = roles
         /\ \A c \in ChanIds :
              chans'[c].cached => (SetHas(chans'[c].read, a) <=> ReadsByCache(a, c)')]_vars

\* Account a's running message syncs under channel c, of the channel, its
\* threads and its private threads.
SyncsUnder(a, c) ==
  {o \in DOMAIN ops : /\ ops[o].kind = "msg" /\ ops[o].pc # "done"
                      /\ ~ops[o].aborted
                      /\ ops[o].acct = a /\ ops[o].parent = c}
LostReadOn(a, c) == SetHas(chans[c].read, a) /\ ~SetHas(chans'[c].read, a)
RestartedOn(o, set) ==
  \E o2 \in DOMAIN ops' \ DOMAIN ops :
    /\ ops'[o2].kind = ops[o].kind /\ ops'[o2].ch = ops[o].ch
    /\ ops'[o2].ltype = ops[o].ltype /\ SetHas(set, ops'[o2].acct)

\* C25: a step in which an account loses read on a channel aborts all of the
\* account's message syncs under the channel, those of private threads
\* included, and starts each of them again on an account that still has
\* read when there is one.
C25_LostReadAbortsAll ==
  [][\A a \in Accounts, c \in ChanIds :
       LostReadOn(a, c) =>
         \A o \in SyncsUnder(a, c) :
           /\ ops'[o].aborted
           /\ Len(chans'[c].read) > 0 => RestartedOn(o, chans'[c].read)]_vars

\* What the permission computation yields for manage-threads.
ManagesByCache(a, c) ==
  LET p == computeChannelPermissions(a, FALSE, rolePerms, chans[c].ow,
                                     accountData.roles[a])
  IN hasChannelPermissions(p, {"READ"}) /\ hasChannelPermissions(p, {"MANAGE"})
LostManageOn(a, c) == SetHas(chans[c].manage, a) /\ ~ManagesByCache(a, c)'
PrivateOpsOf(a, c) ==
  {o \in DOMAIN ops : /\ ops[o].pc # "done" /\ ~ops[o].aborted
                      /\ ops[o].acct = a /\ ops[o].parent = c
                      /\ \/ ops[o].kind = "list" /\ ops[o].ltype = "priv"
                         \/ ops[o].kind = "msg" /\ ops[o].isThread /\ ops[o].priv}

\* C26: a step after which the permission computation no longer grants an
\* account manage-threads on a channel, with or without read, removes the
\* account from accountsWithManageThreadsPermission, aborts its private
\* thread list sync and its private-thread message syncs of the channel and
\* starts each again on an account that has manage-threads when there is
\* one.
C26_LostManageAbortsPrivate ==
  [][\A a \in Accounts, c \in ChanIds :
       LostManageOn(a, c) =>
         /\ ~SetHas(chans'[c].manage, a)
         /\ \A o \in PrivateOpsOf(a, c) :
              /\ ops'[o].aborted
              /\ Len(chans'[c].manage) > 0 => RestartedOn(o, chans'[c].manage)]_vars

\* C27: allReady is set only when every account is ready and is never
\* cleared; while it is unset no message sync, no thread enumeration and no
\* member request has been started.
C27_AllReadyGate ==
  [][/\ allReady => allReady'
     /\ allReady' => \A a \in Accounts : acct'[a].ready
     /\ ~allReady' => /\ ops' = << >>
                      /\ \A a \in Accounts : acct'[a].memberReqs = {}]_vars
\* A permission update has given an account read on a channel while not all
\* accounts are ready.
C27_Witness ==
  /\ ~allReady /\ ops = << >>
  /\ \E c \in ChanIds : chans[c].cached /\ Len(chans[c].read) > 0

\* Every guild the account's READY listed has been delivered.
AllDelivered(a) == acct[a].details /\ acct[a].guildsLeft <= 0

\* C28: an account is ready exactly when every guild its READY listed has
\* been delivered, also when READY listed none, and allReady is set when
\* every account is ready.
C28_ReadyWhenDelivered ==
  /\ \A a \in Accounts : acct[a].ready <=> AllDelivered(a)
  /\ (\A a \in Accounts : acct[a].ready) => allReady

\* The loop of a message sync ends at its last page: the page is empty or
\* short, or the add the loop awaited (that of the newest message of the
\* page) did not return the first snapshot of the message.
StopsAt(op) ==
  \/ Len(op.page) < PageLimit
  \/ op.lastAdd # "FIRST"

QueuedOf(q, o) == Len(SelectSeq(q, LAMBDA e : e.op = o))

\* C30: a 403 or 404 response to a message page, a reaction user page or an
\* archived thread page makes the operation hang: the response step writes
\* nothing and leaves the registries alone, and from then on the operation
\* sends no request and posts no write, does not remove itself from the
\* registry, and ends only aborted, unregistering itself as it ends.
C30_HangUntilAborted ==
  [][\A o \in DOMAIN ops :
       /\ \A status \in {403, 404} :
            (~ops[o].aborted /\ request(o, status)) =>
              /\ ops'[o].pc = "hang"
              /\ ops'[o].wrote = ops[o].wrote
              /\ dbQueue' = dbQueue /\ reg' = reg
       /\ ops[o].pc = "hang" =>
            /\ ops'[o].nRest = ops[o].nRest
            /\ ops'[o].wrote = ops[o].wrote
            /\ QueuedOf(dbQueue', o) <= QueuedOf(dbQueue, o)
            /\ ops'[o].pc \in {"hang", "done"}
            /\ ops'[o].pc = "hang" =>
                 (Reachable(ops, reg, o) => Reachable(ops', reg', o))
            /\ ops'[o].pc = "done" =>
                 ops'[o].aborted /\ ~Reachable(ops', reg', o)]_vars

\* C31: a transport opened while a resume state is saved is opened to the
\* resume_gateway_url of that state, and to the default URL otherwise.
C31_ResumeURLUsed ==
  [][gw'.made = gw.made + 1 =>
       gw'.urlOf[gw'.made] = IF gw.rs.defined THEN gw.rs.url ELSE DefaultURL]_vars

\* What follows a programming error: "error" is emitted, the transport is
\* closed, no heartbeat timer is armed and nothing is sent or attempted.
ErrorHandled(g, g2) ==
  /\ GwEmitted(g2, "error")
  /\ g2.ws = 0 /\ g.ws \notin g2.open
  /\ ~g2.hbTimer
  /\ \A op \in SentOps : ~GwSent(g2, op)
  /\ ~g2.fault

\* C32: a HELLO received while the connection is not CONNECTING, and a first
\* dispatch other than READY with no saved session, make the connection emit
\* "error" and close its transport; no heartbeat timer is started and no
\* IDENTIFY, RESUME or HEARTBEAT is sent.
C32_ProgrammingError ==
  [][/\ \A w \in Transports :
          (HelloAgain(w) /\ gw.state \notin {"CONNECTING", "DESTROYED"}) =>
            ErrorHandled(gw, gw')
     /\ \A w \in Transports, s \in 1..MaxSeq :
          (EarlyDispatch(w, s) /\ ~gw.rs.defined /\ gw.state # "DESTROYED") =>
            ErrorHandled(gw, gw')]_vars

\* C33: a partial message add without edited_timestamp for a stored message
\* appends nothing to the previous snapshots; when the update carries
\* content (or flags, components, attachments) it is answered with an error
\* whatever is stored, and otherwise the latest row holds the embeds of the
\* update.
C33_EmbedUpdate ==
  [][\A id \in MsgIds, f1, f2 \in FieldValues, has \in SUBSET MsgProps :
       (/\ AddMessageSnapshot(TRUE, Row(id, "c1", 0, f1, f2), has)
        /\ HasRow(latest["message"], id)) =>
         /\ previous' = previous
         /\ IF "f1" \in has
            THEN reply'.res = "ERROR" /\ latest' = latest
            ELSE "f2" \in has => RowOf(latest'["message"], id).f2 = f2]_vars

\* C34: a bulk removal that names an emoji, when the engine runs it, sets the
\* end time on exactly the open placements of that emoji on the message and
\* changes no other row; with no emoji it closes every open placement on the
\* message and nothing else.  The request of the model names any emoji of
\* Emojis.
C34_BulkRemovalFrame ==
  [][\A m \in MsgIds, timestamp \in 1..MaxTimestamp :
       /\ \A emoji \in Emojis :
            MarkReactionsAsRemovedBulk(m, TRUE, TRUE, timestamp) =>
              latest'["reaction"] =
                {IF r.message_id = m /\ r.emoji = encodeEmoji(emoji) /\ r.end = Null
                 THEN [r EXCEPT !.end = encodeTiming(timestamp, TRUE)]
                 ELSE r : r \in latest["reaction"]}
       /\ \A accepted \in BOOLEAN :
            MarkReactionsAsRemovedBulk(m, FALSE, accepted, timestamp) =>
              latest'["reaction"] =
                {IF r.message_id = m /\ r.end = Null
                 THEN [r EXCEPT !.end = encodeTiming(timestamp, TRUE)]
                 ELSE r : r \in latest["reaction"]}]_vars

\* The channels whose permission sets still hold account a.
ChannelsHolding(C, a) ==
  {c \in ChanIds : SetHas(C[c].read, a) \/ SetHas(C[c].manage, a)}

\* C35: once disconnectAccount(account) has run (a REST 401 of one of its
\* operations) the account is in no channel's accountsWithReadPermission or
\* accountsWithManageThreadsPermission set.
C35_DisconnectedLeavesSets ==
  [][\A o \in DOMAIN ops :
       (~ops[o].aborted /\ request(o, 401)) =>
         ChannelsHolding(chans', ops[o].acct) = {}]_vars

\* The permission set that matches the kind of the list operation o.
SetOfListKind(o) ==
  IF ops[o].ltype = "pub" THEN chans[ops[o].ch].read ELSE chans[ops[o].ch].manage

\* C36: when an archived-thread list operation receives a page, a channel
\* snapshot is posted for the threads of the page and every message sync
\* started for them runs on an account of the set matching the list kind:
\* accountsWithReadPermission for a public list,
\* accountsWithManageThreadsPermission for a private one.
C36_ListSpawnsOnMatchingSet ==
  [][\A o \in DOMAIN ops :
       (/\ ops[o].kind = "list" /\ ~ops[o].aborted
        /\ request(o, 200)
        /\ Len(ListedThreads(Cur, o)) > 0) =>
         /\ Len(dbQueue') > Len(dbQueue)
         /\ \A n \in DOMAIN ops' \ DOMAIN ops :
              SetHas(SetOfListKind(o), ops'[n].acct)]_vars

\* C37: when session_lost fires for an account its set of member requests
\* under way becomes empty, its gateway operation counter goes down by the
\* number of requests that were under way and is then zero, the member set
\* of the guild of an interrupted request is null, and no other account
\* changes.
C37_SessionLostClearsRequests ==
  [][\A a \in Accounts :
       SessionLost(a) =>
         /\ acct'[a].memberReqs = {}
         /\ acct'[a].gwOps = acct[a].gwOps - Cardinality(acct[a].memberReqs)
         /\ acct'[a].gwOps = 0
         /\ ("g" \in acct[a].memberReqs /\ guildCached) => members'.isNull
         /\ \A b \in Accounts \ {a} : acct'[b] = acct[b]]_vars

\* The operations of account a that have started and not finished.
RunningOps(a) == {o \in DOMAIN ops : ops[o].acct = a /\ ops[o].pc # "done"}

\* C38: each account's numberOfOngoingRESTOperations equals the number of its
\* message syncs and archived-thread list syncs that have started and not
\* finished; it is never negative.
C38_RestCounterIsLoad ==
  \A a \in Accounts :
    /\ acct[a].restOps >= 0
    /\ acct[a].restOps = Cardinality(RunningOps(a))

\* A step that spawns message syncs for listed threads: a page of an
\* archived-thread enumeration of channel c, or a THREAD_LIST_SYNC dispatch
\* that names a thread of c1 not being synced.
SpawnsFromPage(c) ==
  \E o \in DOMAIN ops :
    /\ ops[o].kind = "list" /\ ops[o].ch = c /\ ~ops[o].aborted
    /\ Len(ListedThreads(Cur, o)) > 0
    /\ request(o, 200)
SpawnsFromListSync(c) ==
  /\ c = "c1" /\ allReady /\ chans[c].cached
  /\ \E t \in Range(ActiveThreads) : ~IsSyncing(Cur, accountData.keys, c, t)
  /\ \E a \in Accounts : ThreadListSync(a)

\* C39: whenever a message sync is spawned from an archived-thread
\* enumeration page or from a THREAD_LIST_SYNC dispatch, the parent
\* channel's accountsWithReadPermission is not empty, so the chosen account
\* exists.
C39_SpawnAccountExists ==
  [][\A c \in ChanIds :
       (SpawnsFromPage(c) \/ SpawnsFromListSync(c)) => Len(chans[c].read) > 0]_vars

\* C40: a payload handed to the transport finds a transport and a rate
\* limiter, whatever happened while its send waited for the limiter, and
\* sendPayload called while the state is not READY sends nothing and is
\* answered with an error.
C40_SendFindsTransport ==
  [][/\ ~gw'.fault
     /\ (SendPayload /\ gw.state # "READY") =>
          /\ GwEmitted(gw', "rejected")
          /\ \A op \in SentOps : ~GwSent(gw', op)
          /\ gw'.waiting = gw.waiting]_vars

====
